---- MODULE Spec2Model ----
(***************************************************************************)
(* Model of the Tattva fact-checking backend: the fact_check endpoint      *)
(* (app/main.py), TattvaAgent.process (app/agents/tattva_agent.py) and the *)
(* services it drives.  External collaborators (the text-generation oracle *)
(* and the search provider) are nondeterministic inputs.                   *)
(*                                                                         *)
(* Numbers of the source that are floats in [0,1] are fixed-point integers *)
(* in thousandths (0.1 is 100, 0.5 is 500, 1.45 is 1450); the Tattva score *)
(* and the reality distance, floats in [0,100], are in thousandths of a    *)
(* point (100.0 is 100000).                                                *)
(*                                                                         *)
(* A Python dict is a record; a key that is absent is absent from the      *)
(* record's DOMAIN.  A call that can raise returns Ok(v) or Raise(e).      *)
(***************************************************************************)
EXTENDS Integers, Sequences, FiniteSets, TLC

(***************************************************************************)
(* Bounds of the model.                                                    *)
(***************************************************************************)
MaxClaims == 2        \* longest list of claims the extraction oracle returns
MaxPlanLen == 7       \* longest query plan the planning oracle returns
MaxResults == 1       \* most results one search call returns
MaxItems == 2         \* most evidence items of a bundle whose strength is computed on its own
MaxScored == 2        \* longest claim list scored on its own
MaxBeliefs == 2       \* longest list of beliefs

(***************************************************************************)
(* Constants of the program.                                               *)
(***************************************************************************)
MaxQueries == 6
MaxPerDomain == 2
CALIBRATION_TEMPERATURE == 1450
ProbFloor == 5
ProbCeil == 995
NoEvidenceStrength == 100
FallbackEvidenceStrength == 100
DefaultTruthProb == 500
FallbackTruthProb == 500
DefaultItemScore == 500
ModalityAlign == 800
PrimarySourceBonus == 500
DiversityDomains == 5
ThinEvidenceThreshold == 350
SearchFailureThreshold == 200
DefaultProminence == 500
DefaultWeightStrength == 500
DefaultThinStrength == 1000
ConflictPenalty == 400
ThinPenalty == 300
HttpOk == 200

(***************************************************************************)
(* Generic helpers: Python's dict.get, results of calls that may raise.    *)
(***************************************************************************)
_get(d, k, default) == IF k \in DOMAIN d THEN d[k] ELSE default

Ok(v) == [ok |-> TRUE, value |-> v]
Raise(e) == [ok |-> FALSE, exc |-> e]

EmptyDict == [k \in {} |-> 0]

Min(a, b) == IF a < b THEN a ELSE b

RECURSIVE SumSeq(_)
SumSeq(s) == IF s = <<>> THEN 0 ELSE Head(s) + SumSeq(Tail(s))

(***************************************************************************)
(* app/utils/calibration.py                                                *)
(***************************************************************************)
clip(x, lo, hi) == IF x < lo THEN lo ELSE IF x > hi THEN hi ELSE x

\* np.log(num / den) in thousandths, for num, den > 0: halve the ratio into
\* [1,2) (ln 2 is 693 thousandths) and use ln m = 2 atanh((m-1)/(m+1)).
RECURSIVE LnRatio(_, _)
LnRatio(num, den) ==
  IF num < den THEN 0 - LnRatio(den, num)
  ELSE IF num >= 2 * den THEN 693 + LnRatio(num, 2 * den)
  ELSE LET z == (1000 * (num - den)) \div (num + den)
           z2 == (z * z) \div 1000
           z3 == (z * z2) \div 1000
           z5 == (z3 * z2) \div 1000
       IN  2 * z + (2 * z3) \div 3 + (2 * z5) \div 5

\* np.exp(x) in thousandths, for x >= 0 in thousandths; saturates (the float
\* grows until 1 / (1 + exp) is far below the clip floor).
RECURSIVE ExpMilli(_)
ExpMilli(x) ==
  IF x > 13000 THEN 1000000000
  ELSE IF x >= 693 THEN 2 * ExpMilli(x - 693)
  ELSE LET t2 == (x * x) \div 2000
           t3 == (x * t2) \div 3000
           t4 == (x * t3) \div 4000
           t5 == (x * t4) \div 5000
       IN  1000 + x + t2 + t3 + t4 + t5

\* 1 / (1 + np.exp(-x)) in thousandths.
Sigmoid(x) ==
  IF x >= 0 THEN 1000000 \div (1000 + (1000000 \div ExpMilli(x)))
  ELSE 1000000 \div (1000 + ExpMilli(0 - x))

\* logit / temperature, rounding toward zero on both sides.
ScaleLogit(logit, temperature) ==
  IF logit >= 0 THEN (logit * 1000) \div temperature
  ELSE 0 - (((0 - logit) * 1000) \div temperature)

\* a variant of calibrate_probability without the clip of line 18
calibrate_probability_unclipped(prob, temperature) ==
  LET p == clip(prob, ProbFloor, ProbCeil)
      logit == LnRatio(p, 1000 - p)
      calibrated_logit == ScaleLogit(logit, temperature)
      calibrated_prob == Sigmoid(calibrated_logit)
  IN  calibrated_prob

calibrate_probability(prob, temperature) ==
  LET p == clip(prob, ProbFloor, ProbCeil)
      logit == LnRatio(p, 1000 - p)
      calibrated_logit == ScaleLogit(logit, temperature)
      calibrated_prob == Sigmoid(calibrated_logit)
  IN  clip(calibrated_prob, ProbFloor, ProbCeil)

calculate_evidence_strength(credibility, specificity, recency, diversity, modality_align, primary_source_bonus) ==
  (350 * credibility + 200 * specificity + 150 * recency + 150 * diversity
   + 100 * modality_align + 50 * primary_source_bonus) \div 1000

(***************************************************************************)
(* The text-generation oracle.  chain.invoke either raises or returns a    *)
(* response whose content is prose holding no JSON ("text"), JSON that is  *)
(* not an object, such as a list ("nonobject"), or a JSON object.          *)
(* ParseContent is the block every service repeats: the regular            *)
(* expressions pick the JSON out of the content and json.loads decodes it. *)
(***************************************************************************)
OracleRaises == [kind |-> "raise"]
OracleText == [kind |-> "text"]
OracleNonObject == [kind |-> "nonobject"]
OracleObject(v) == [kind |-> "object", value |-> v]

JsonOther == [t |-> "other"]
JsonObject(v) == [t |-> "object", v |-> v]

ParseContent(response) ==
  CASE response.kind = "text" -> Raise("JSONDecodeError")
    [] response.kind = "nonobject" -> Ok(JsonOther)
    [] response.kind = "object" -> Ok(JsonObject(response.value))

\* result.get(key, default) on the decoded JSON; a list has no .get
ResultGet(parsed, key, default) ==
  IF parsed.value.t = "object"
  THEN Ok(_get(parsed.value.v, key, default))
  ELSE Raise("AttributeError")

(***************************************************************************)
(* app/services/claim_extractor.py                                         *)
(***************************************************************************)
extract_claims(response) ==
  IF response.kind = "raise" THEN Raise("OracleError")
  ELSE LET parsed == ParseContent(response)
       IN  IF parsed.ok THEN ResultGet(parsed, "claims", <<>>) ELSE Ok(<<>>)

(***************************************************************************)
(* app/services/query_planner.py                                           *)
(***************************************************************************)
create_query_plan(response) ==
  IF response.kind = "raise" THEN Raise("OracleError")
  ELSE LET parsed == ParseContent(response)
       IN  IF parsed.ok THEN ResultGet(parsed, "query_plan", <<>>) ELSE Ok(<<>>)

(***************************************************************************)
(* app/services/evidence_gatherer.py                                       *)
(* A URL is a record: http says whether it starts with a scheme, www       *)
(* whether the host is written with a leading "www.".                      *)
(***************************************************************************)
Url(http, www, host) == [http |-> http, www |-> www, host |-> host]

\* re.search(r'https?://(?:www\.)?([^/]+)', url): the host without "www."
\* when the scheme matches, else the url unchanged
_extract_domain(url) ==
  IF url.http THEN Url(FALSE, FALSE, url.host) ELSE url

\* one raw result dict of the search tool -> {'title', 'link', 'snippet'}
ParseResult(result) ==
  [title |-> _get(result, "title", "N/A"),
   link |-> _get(result, "url", _get(result, "link", Url(FALSE, FALSE, ""))),
   snippet |-> _get(result, "content", _get(result, "snippet", ""))]

_parse_tavily_results(results) ==
  [k \in 1..Len(results) |-> ParseResult(results[k])]

\* lines 39-43: keep a result while its domain has fewer than 2 results
RECURSIVE DedupInto(_, _, _)
DedupInto(parsed_results, all_results, domains_seen) ==
  IF parsed_results = <<>>
  THEN [all_results |-> all_results, domains_seen |-> domains_seen]
  ELSE LET result == Head(parsed_results)
           domain == _extract_domain(_get(result, "link", Url(FALSE, FALSE, "")))
       IN  IF _get(domains_seen, domain, 0) < MaxPerDomain
           THEN DedupInto(Tail(parsed_results), Append(all_results, result),
                          (domain :> (_get(domains_seen, domain, 0) + 1)) @@ domains_seen)
           ELSE DedupInto(Tail(parsed_results), all_results, domains_seen)

\* a variant of PlanSlice that forgets the [:6]
PlanSlice_whole(query_plan) == query_plan

\* query_plan[:6]
PlanSlice(query_plan) == SubSeq(query_plan, 1, Min(MaxQueries, Len(query_plan)))

NoEvidenceBundle ==
  [evidence_items |-> <<>>,
   overall_assessment |-> "No evidence found",
   search_successful |-> FALSE]

FailedEvaluation ==
  [evidence_items |-> <<>>,
   overall_assessment |-> "Failed to evaluate evidence"]

_evaluate_evidence(response) ==
  IF response.kind = "raise" THEN Raise("OracleError")
  ELSE LET parsed == ParseContent(response)
       IN  IF parsed.ok THEN parsed ELSE Ok(JsonObject(FailedEvaluation))

\* lines 56-58: evidence_evaluation['search_successful'] = True; a list
\* does not take a string index
MarkSuccessful(evaluation) ==
  IF ~evaluation.ok THEN evaluation
  ELSE IF evaluation.value.t = "object"
       THEN Ok(("search_successful" :> TRUE) @@ evaluation.value.v)
       ELSE Raise("TypeError")

(***************************************************************************)
(* app/services/verdict_synthesizer.py                                     *)
(***************************************************************************)
AvgOf(items, key) ==
  SumSeq([k \in 1..Len(items) |-> _get(items[k], key, DefaultItemScore)])
    \div Len(items)

\* a variant of _calculate_evidence_strength whose sentinel covers only the
\* bundle of a search that found nothing
_calculate_evidence_strength_formula(evidence) ==
  LET evidence_items == _get(evidence, "evidence_items", <<>>)
  IN  IF evidence_items = <<>>
      THEN IF _get(evidence, "search_successful", FALSE)
           THEN calculate_evidence_strength(DefaultItemScore, DefaultItemScore,
                                            DefaultItemScore, 0, ModalityAlign,
                                            PrimarySourceBonus)
           ELSE NoEvidenceStrength
      ELSE LET unique_domains ==
                 Cardinality({_extract_domain(_get(evidence_items[k], "source_url",
                                                   Url(FALSE, FALSE, ""))) :
                              k \in 1..Len(evidence_items)})
               diversity == Min((unique_domains * 1000) \div DiversityDomains, 1000)
           IN  calculate_evidence_strength(AvgOf(evidence_items, "credibility"),
                                           AvgOf(evidence_items, "specificity"),
                                           AvgOf(evidence_items, "recency"),
                                           diversity, ModalityAlign, PrimarySourceBonus)

_calculate_evidence_strength(evidence) ==
  LET evidence_items == _get(evidence, "evidence_items", <<>>)
  IN  IF evidence_items = <<>> THEN NoEvidenceStrength
      ELSE LET unique_domains ==
                 Cardinality({_extract_domain(_get(evidence_items[k], "source_url",
                                                   Url(FALSE, FALSE, ""))) :
                              k \in 1..Len(evidence_items)})
               diversity == Min((unique_domains * 1000) \div DiversityDomains, 1000)
           IN  calculate_evidence_strength(AvgOf(evidence_items, "credibility"),
                                           AvgOf(evidence_items, "specificity"),
                                           AvgOf(evidence_items, "recency"),
                                           diversity, ModalityAlign, PrimarySourceBonus)

FallbackVerdict ==
  [label |-> "unverified",
   truth_prob |-> FallbackTruthProb,
   truth_prob_cal |-> calibrate_probability(FallbackTruthProb, CALIBRATION_TEMPERATURE),
   explanation |-> "Unable to synthesize verdict from available evidence.",
   citations |-> <<>>,
   gaps |-> <<"Evidence evaluation failed">>,
   modalities_check |-> [ooc_risk |-> FALSE, notes |-> "No modality check performed"]]

\* a variant of synthesize_verdict that keeps a truth_prob_cal the oracle supplied
synthesize_verdict_keeps_cal(response, evidence) ==
  IF response.kind = "raise" THEN Raise("OracleError")
  ELSE LET parsed == ParseContent(response)
       IN  IF ~parsed.ok
           THEN Ok([verdict |-> FallbackVerdict,
                    evidence_strength |-> FallbackEvidenceStrength])
           ELSE LET got == ResultGet(parsed, "verdict", EmptyDict)
                IN  IF ~got.ok THEN got
                    ELSE LET verdict == got.value
                             truth_prob == _get(verdict, "truth_prob", DefaultTruthProb)
                         IN  Ok([verdict |->
                                   verdict @@
                                   ("truth_prob_cal" :>
                                      calibrate_probability(truth_prob,
                                                            CALIBRATION_TEMPERATURE)),
                                 evidence_strength |->
                                   _calculate_evidence_strength(evidence)])

synthesize_verdict(response, evidence) ==
  IF response.kind = "raise" THEN Raise("OracleError")
  ELSE LET parsed == ParseContent(response)
       IN  IF ~parsed.ok
           THEN Ok([verdict |-> FallbackVerdict,
                    evidence_strength |-> FallbackEvidenceStrength])
           ELSE LET got == ResultGet(parsed, "verdict", EmptyDict)
                IN  IF ~got.ok THEN got
                    ELSE LET verdict == got.value
                             truth_prob == _get(verdict, "truth_prob", DefaultTruthProb)
                         IN  Ok([verdict |->
                                   ("truth_prob_cal" :>
                                      calibrate_probability(truth_prob,
                                                            CALIBRATION_TEMPERATURE))
                                   @@ verdict,
                                 evidence_strength |->
                                   _calculate_evidence_strength(evidence)])

(***************************************************************************)
(* app/utils/calibration.py: the aggregate scores.                         *)
(***************************************************************************)
\* prominence * (0.5 + 0.5 * evidence_strength)
\* a variant of ClaimWeight that weighs by prominence alone
ClaimWeight_prominence(claim) ==
  _get(claim, "prominence", DefaultProminence)

ClaimWeight(claim) ==
  (_get(claim, "prominence", DefaultProminence)
     * (1000 + _get(claim, "evidence_strength", DefaultWeightStrength))) \div 2000

Weights(claims) == [k \in 1..Len(claims) |-> ClaimWeight(claims[k])]

\* a variant of WeightedMean100 that does not normalise the weights
WeightedMean100_unnormalised(claims, x) ==
  LET weights == Weights(claims)
  IN  (100 * SumSeq([k \in 1..Len(claims) |-> weights[k] * x[k]])) \div 1000

\* 100 * sum(alpha[i] * x[i]) with alpha the normalised weights, uniform when
\* every weight is zero; x is a sequence as long as claims
WeightedMean100(claims, x) ==
  LET weights == Weights(claims)
      total_weight == SumSeq(weights)
  IN  IF total_weight = 0
      THEN (100 * SumSeq(x)) \div Len(claims)
      ELSE (100 * SumSeq([k \in 1..Len(claims) |-> weights[k] * x[k]])) \div total_weight

HasLabel(claim) == "label" \in DOMAIN claim.verdict

\* a variant of calculate_tattva_score without the clip of line 88
calculate_tattva_score_unclipped(claims) ==
  IF claims = <<>> THEN Ok(0)
  ELSE IF \E k \in 1..Len(claims) : ~HasLabel(claims[k]) THEN Raise("KeyError")
  ELSE LET n == Len(claims)
           base_score ==
             WeightedMean100(claims, [k \in 1..n |-> claims[k].verdict.truth_prob_cal])
           mixed == Cardinality({k \in 1..n : claims[k].verdict.label = "mixed"})
           thin == Cardinality({k \in 1..n :
                      _get(claims[k], "evidence_strength", DefaultThinStrength)
                        < ThinEvidenceThreshold})
           penalty == (100 * (ConflictPenalty * mixed + ThinPenalty * thin)) \div n
       IN  Ok(base_score - penalty)

calculate_tattva_score(claims) ==
  IF claims = <<>> THEN Ok(0)
  ELSE IF \E k \in 1..Len(claims) : ~HasLabel(claims[k]) THEN Raise("KeyError")
  ELSE LET n == Len(claims)
           base_score ==
             WeightedMean100(claims, [k \in 1..n |-> claims[k].verdict.truth_prob_cal])
           mixed == Cardinality({k \in 1..n : claims[k].verdict.label = "mixed"})
           thin == Cardinality({k \in 1..n :
                      _get(claims[k], "evidence_strength", DefaultThinStrength)
                        < ThinEvidenceThreshold})
           penalty == (100 * (ConflictPenalty * mixed + ThinPenalty * thin)) \div n
       IN  Ok(clip(base_score - penalty, 0, 100000))

\* a variant of Abs that keeps the sign
Abs_signed(x) == x

Abs(x) == IF x < 0 THEN 0 - x ELSE x

\* {b['claim_id']: b['p'] for b in beliefs}: the last belief of an id wins
BeliefOf(beliefs, claim_id) ==
  LET ks == {k \in 1..Len(beliefs) : beliefs[k].claim_id = claim_id}
  IN  beliefs[CHOOSE k \in ks : \A j \in ks : j <= k].p

\* a variant of calculate_reality_distance that normalises the weights
\* before it looks at the beliefs
calculate_reality_distance_weights_first(claims, beliefs) ==
  IF claims = <<>> THEN Raise("ZeroDivisionError")
  ELSE IF beliefs = <<>>
  THEN Ok([status |-> "needs_user_input", value |-> 0,
           notes |-> <<"No user beliefs provided. Create belief sliders to measure Reality Distance.">>])
  ELSE LET n == Len(claims)
           ids == {beliefs[k].claim_id : k \in 1..Len(beliefs)}
           matched == {k \in 1..n : claims[k].id \in ids}
           deviation == [k \in 1..n |->
                           IF k \in matched
                           THEN Abs(BeliefOf(beliefs, claims[k].id)
                                    - claims[k].verdict.truth_prob_cal)
                           ELSE 0]
       IN  Ok([status |-> "ok",
               value |-> clip(WeightedMean100(claims, deviation), 0, 100000),
               notes |-> <<"Based on", Cardinality(matched),
                           "matched beliefs out of", n, "claims.">>])

calculate_reality_distance(claims, beliefs) ==
  IF beliefs = <<>>
  THEN Ok([status |-> "needs_user_input", value |-> 0,
           notes |-> <<"No user beliefs provided. Create belief sliders to measure Reality Distance.">>])
  ELSE IF claims = <<>> THEN Raise("ZeroDivisionError")
  ELSE LET n == Len(claims)
           ids == {beliefs[k].claim_id : k \in 1..Len(beliefs)}
           matched == {k \in 1..n : claims[k].id \in ids}
           deviation == [k \in 1..n |->
                           IF k \in matched
                           THEN Abs(BeliefOf(beliefs, claims[k].id)
                                    - claims[k].verdict.truth_prob_cal)
                           ELSE 0]
       IN  Ok([status |-> "ok",
               value |-> clip(WeightedMean100(claims, deviation), 0, 100000),
               notes |-> <<"Based on", Cardinality(matched),
                           "matched beliefs out of", n, "claims.">>])

(***************************************************************************)
(* app/services/scorer.py                                                  *)
(***************************************************************************)
\* a variant of calculate_scores whose Tattva score looks at the beliefs
calculate_scores_by_belief(claims, beliefs) ==
  LET tattva_score == IF beliefs = <<>> THEN calculate_tattva_score(claims) ELSE Ok(0)
      reality_distance == calculate_reality_distance(claims, beliefs)
  IN  IF ~tattva_score.ok THEN tattva_score
      ELSE IF ~reality_distance.ok THEN reality_distance
      ELSE Ok([tattva_score |-> tattva_score.value,
               reality_distance |-> reality_distance.value])

calculate_scores(claims, beliefs) ==
  LET tattva_score == calculate_tattva_score(claims)
      reality_distance == calculate_reality_distance(claims, beliefs)
  IN  IF ~tattva_score.ok THEN tattva_score
      ELSE IF ~reality_distance.ok THEN reality_distance
      ELSE Ok([tattva_score |-> tattva_score.value,
               reality_distance |-> reality_distance.value])

(***************************************************************************)
(* app/services/bias_analyzer.py                                           *)
(***************************************************************************)
BiasDefault(notes) ==
  [bias_signals |-> <<>>, rhetoric |-> <<>>, missing_context |-> <<>>, notes |-> notes]

analyze_bias(response) ==
  IF response.kind = "raise" THEN Raise("OracleError")
  ELSE LET parsed == ParseContent(response)
       IN  IF parsed.ok
           THEN ResultGet(parsed, "bias_context", BiasDefault("Unable to analyze bias"))
           ELSE Ok(BiasDefault("Bias analysis failed"))

(***************************************************************************)
(* app/agents/tattva_agent.py: the helpers of TattvaAgent.                 *)
(***************************************************************************)
_generate_summary(response) ==
  IF response.kind = "raise" THEN Raise("OracleError") ELSE Ok(response.content)

\* a variant of CountLimit that loses the count
CountLimit_uncounted(n, text) == [count |-> 0, text |-> text]

CountLimit(n, text) == [count |-> n, text |-> text]
Notice(text) == [text |-> text]

\* a variant of _identify_limitations whose time-reference entry needs only
\* half of the claims
_identify_limitations_half(claims, input_data) ==
  IF \E k \in 1..Len(claims) : ~HasLabel(claims[k]) THEN Raise("KeyError")
  ELSE
  LET n == Len(claims)
      unverified_count ==
        Cardinality({k \in 1..n : claims[k].verdict.label = "unverified"})
      low_evidence ==
        Cardinality({k \in 1..n :
          _get(claims[k], "evidence_strength", DefaultThinStrength) < ThinEvidenceThreshold})
      time_ambiguous ==
        Cardinality({k \in 1..n : _get(claims[k], "time_refs", <<>>) = <<>>})
      search_failures ==
        Cardinality({k \in 1..n :
          ~(_get(claims[k], "evidence_strength", DefaultThinStrength) > SearchFailureThreshold)})
      limitations ==
        (IF unverified_count > 0
         THEN <<CountLimit(unverified_count,
                  "claims could not be verified due to insufficient evidence")>>
         ELSE <<>>)
        \o (IF low_evidence > 0
            THEN <<CountLimit(low_evidence, "claims have weak supporting evidence")>>
            ELSE <<>>)
        \o (IF input_data.content_type = "youtube"
            THEN <<Notice("Analysis based on transcript only; visual elements not verified")>>
            ELSE <<>>)
        \o (IF 2 * time_ambiguous >= n
            THEN <<Notice("Many claims lack clear time references, affecting verification accuracy")>>
            ELSE <<>>)
        \o (IF search_failures > 0
            THEN <<CountLimit(search_failures, "Search returned limited results for claims")>>
            ELSE <<>>)
  IN  Ok(IF limitations # <<>> THEN limitations
         ELSE <<Notice("No significant limitations identified")>>)

_identify_limitations(claims, input_data) ==
  IF \E k \in 1..Len(claims) : ~HasLabel(claims[k]) THEN Raise("KeyError")
  ELSE
  LET n == Len(claims)
      unverified_count ==
        Cardinality({k \in 1..n : claims[k].verdict.label = "unverified"})
      low_evidence ==
        Cardinality({k \in 1..n :
          _get(claims[k], "evidence_strength", DefaultThinStrength) < ThinEvidenceThreshold})
      time_ambiguous ==
        Cardinality({k \in 1..n : _get(claims[k], "time_refs", <<>>) = <<>>})
      search_failures ==
        Cardinality({k \in 1..n :
          ~(_get(claims[k], "evidence_strength", DefaultThinStrength) > SearchFailureThreshold)})
      limitations ==
        (IF unverified_count > 0
         THEN <<CountLimit(unverified_count,
                  "claims could not be verified due to insufficient evidence")>>
         ELSE <<>>)
        \o (IF low_evidence > 0
            THEN <<CountLimit(low_evidence, "claims have weak supporting evidence")>>
            ELSE <<>>)
        \o (IF input_data.content_type = "youtube"
            THEN <<Notice("Analysis based on transcript only; visual elements not verified")>>
            ELSE <<>>)
        \o (IF 2 * time_ambiguous > n
            THEN <<Notice("Many claims lack clear time references, affecting verification accuracy")>>
            ELSE <<>>)
        \o (IF search_failures > 0
            THEN <<CountLimit(search_failures, "Search returned limited results for claims")>>
            ELSE <<>>)
  IN  Ok(IF limitations # <<>> THEN limitations
         ELSE <<Notice("No significant limitations identified")>>)

\* a variant of _create_empty_output that reports the distance as computed
_create_empty_output_ok(reason) ==
  [summary |-> reason,
   claims |-> <<>>,
   tattva_score |-> 0,
   reality_distance |-> [status |-> "ok", value |-> 0, notes |-> <<reason>>],
   bias_context |-> BiasDefault(reason),
   limitations |-> <<Notice(reason)>>]

_create_empty_output(reason) ==
  [summary |-> reason,
   claims |-> <<>>,
   tattva_score |-> 0,
   reality_distance |-> [status |-> "needs_user_input", value |-> 0, notes |-> <<reason>>],
   bias_context |-> BiasDefault(reason),
   limitations |-> <<Notice(reason)>>]

(***************************************************************************)
(* app/models/output_models.py: what TattvaOutput(...) accepts.            *)
(***************************************************************************)
VerdictLabels == {"true", "mostly_true", "mixed", "mostly_false", "false", "unverified"}
ClaimTypes == {"fact", "prediction", "opinion_with_fact_core"}

HasKeys(d, keys) == keys \subseteq DOMAIN d

ValidQueryItem(item) == HasKeys(item, {"query", "evidence_type"})

ValidVerdict(v) ==
  /\ HasKeys(v, {"label", "truth_prob", "truth_prob_cal", "explanation", "gaps",
                 "modalities_check"})
  /\ v.label \in VerdictLabels
  /\ v.truth_prob \in 0..1000
  /\ v.truth_prob_cal \in 0..1000
  /\ Len(_get(v, "citations", <<>>)) <= 5

ValidClaim(c) ==
  /\ HasKeys(c, {"id", "text", "type", "prominence", "query_plan", "verdict",
                 "evidence_strength"})
  /\ c.type \in ClaimTypes
  /\ c.prominence \in 0..1000
  /\ \A k \in 1..Len(c.query_plan) : ValidQueryItem(c.query_plan[k])
  /\ ValidVerdict(c.verdict)
  /\ c.evidence_strength \in 0..1000

ValidBiasContext(b) == HasKeys(b, {"bias_signals", "rhetoric", "missing_context", "notes"})

TattvaOutput(summary, claims, tattva_score, reality_distance, bias_context, limitations) ==
  IF /\ \A k \in 1..Len(claims) : ValidClaim(claims[k])
     /\ tattva_score \in 0..100000
     /\ reality_distance.value \in 0..100000
     /\ ValidBiasContext(bias_context)
  THEN Ok([summary |-> summary, claims |-> claims, tattva_score |-> tattva_score,
           reality_distance |-> reality_distance, bias_context |-> bias_context,
           limitations |-> limitations])
  ELSE Raise("ValidationError")

(***************************************************************************)
(* The inputs: requests, and what the oracle and the search tool answer.   *)
(***************************************************************************)
BoundedSeq(S, n) == UNION {[1..m -> S] : m \in 0..n}

Statuses == {"Success", "Failed"}
Texts == {"", "The sky is blue."}
ContentTypes == {"youtube", "article"}
BeliefLists == {<<>>, <<[claim_id |-> 1, p |-> 800]>>}

\* requests: a video comes without beliefs, an article with them
Inputs ==
  {input \in [status : Statuses, content_type : ContentTypes,
              transcript : [text : Texts], beliefs : BeliefLists] :
     input.content_type = "youtube" <=> input.beliefs = <<>>}

\* the k-th claim the extraction oracle can name
ClaimOf(k) ==
  [id |-> k, text |-> "claim", type |-> "fact",
   prominence |-> IF k % 2 = 1 THEN 800 ELSE 300,
   time_refs |-> IF k % 2 = 1 THEN <<"2024">> ELSE <<>>,
   named_entities |-> <<>>]

ClaimLists ==
  {[k \in 1..n |-> ClaimOf(k)] : n \in 0..MaxClaims}
    \cup {[k \in 1..n |-> ClaimOf(n + 1 - k)] : n \in 2..MaxClaims}

ExtractResponses ==
  {OracleRaises, OracleText, OracleNonObject, OracleObject(EmptyDict)}
    \cup {OracleObject([claims |-> cl]) : cl \in ClaimLists}

QueryItem(k) == [query |-> k, evidence_type |-> "news"]
ItemWithoutQuery == [evidence_type |-> "news"]
OkPlan(n) == [k \in 1..n |-> QueryItem(k)]

Plans ==
  {OkPlan(n) : n \in {0, MaxPlanLen}}
    \cup {<<ItemWithoutQuery>>, <<QueryItem(1), ItemWithoutQuery>>}

PlanResponses ==
  {OracleRaises, OracleText, OracleNonObject, OracleObject(EmptyDict)}
    \cup {OracleObject([query_plan |-> plan]) : plan \in Plans}

Urls == {Url(TRUE, FALSE, "a.org"), Url(TRUE, TRUE, "a.org"), Url(TRUE, FALSE, "b.org")}
RawResults == {[title |-> "t", url |-> u, content |-> "c"] : u \in Urls}

SearchRaises == [kind |-> "raise"]
SearchOutcomes ==
  {SearchRaises}
    \cup {[kind |-> "results", results |-> rs] : rs \in BoundedSeq(RawResults, MaxResults)}

EvidenceItem ==
  [source_url |-> Url(TRUE, FALSE, "a.org"), publisher |-> "a", stance |-> "supports",
   credibility |-> 900, specificity |-> 800, recency |-> 700]

\* the oracle may name one source once, or list the same site several times
EvidenceItemFrom(url) == [EvidenceItem EXCEPT !.source_url = url]

EvalResponses ==
  {OracleRaises, OracleText, OracleNonObject,
   OracleObject([overall_assessment |-> "nothing usable"]),
   OracleObject([evidence_items |-> <<EvidenceItem>>, overall_assessment |-> "supported"]),
   OracleObject([evidence_items |->
                   <<EvidenceItem, EvidenceItemFrom(Url(TRUE, TRUE, "a.org")), EvidenceItem>>,
                 overall_assessment |-> "supported"])}

\* a verdict as the synthesis oracle words it; it may carry a truth_prob_cal
\* of its own making
OracleVerdict(label, truth_prob) ==
  [label |-> label, truth_prob |-> truth_prob, truth_prob_cal |-> 990, explanation |-> "e",
   citations |-> <<>>, gaps |-> <<>>,
   modalities_check |-> [ooc_risk |-> FALSE, notes |-> "n"]]

SynthResponses ==
  {OracleRaises, OracleText, OracleNonObject, OracleObject(EmptyDict),
   OracleObject([verdict |-> OracleVerdict("mostly_true", 900)])}

BiasResponses ==
  {OracleRaises, OracleText, OracleNonObject, OracleObject(EmptyDict),
   OracleObject([bias_context |->
                   [bias_signals |-> <<"loaded language">>, rhetoric |-> <<>>,
                    missing_context |-> <<>>, notes |-> "n"]])}

SummaryResponses == {OracleRaises, [kind |-> "text", content |-> "summary"]}

(***************************************************************************)
(* The state of one request.                                               *)
(***************************************************************************)
VARIABLES
  input_data,        \* the TattvaInput of the request
  pc,                \* where fact_check / process stands
  next_uuid,         \* uuid.uuid4(): the next fresh identifier
  request_id,        \* fact_check's request_id (0: not yet drawn)
  agent_request_id,  \* process' request_id (0: not yet drawn)
  events,            \* the events handed to supabase_logger, in order
  attempted,         \* the collaborators and stages invoked so far
  claims,            \* process: the extracted claims, enriched in place
  i,                 \* process: index of the claim in the loop (1-based)
  query_plan,        \* process: the plan of claim i
  processed_claims,  \* process: processed_claims
  evidence,          \* process: the evidence bundle of claim i
  q,                 \* gather_evidence: index of the next entry of query_plan[:6]
  all_results,       \* gather_evidence: all_results
  domains_seen,      \* gather_evidence: domains_seen
  search_log,        \* the queries gather_evidence passed to search.invoke
  failed_searches,   \* how many of these search.invoke calls raised
  last_oracle,       \* the latest answer of the text-generation oracle
  scores,            \* process: scores
  bias_context,      \* process: bias_context
  output,            \* what process returned
  exc,               \* the exception in flight, or NoException
  response,          \* what fact_check returned: status code and body
  call,              \* a function of calibration.py called on its own, with its arguments
  returned,          \* what that call returned
  sink,              \* supabase_logger.supabase: a client ("configured") or None
  log_result,        \* how the latest supabase_logger.log_event call ended
  frames,            \* two requests in flight: the locals of each one's process coroutine
  last_gather        \* the lists of the latest gather_evidence call on the shared instance

vars ==
  <<input_data, pc, next_uuid, request_id, agent_request_id, events, attempted,
    claims, i, query_plan, processed_claims, evidence, q, all_results,
    domains_seen, search_log, failed_searches, last_oracle, scores,
    bias_context, output, exc, response, call, returned, sink, log_result,
    frames, last_gather>>

NoException == [type |-> "none"]
Exception(type, stage, claim_index) ==
  [type |-> type, stage |-> stage, claim_index |-> claim_index]

None == [none |-> TRUE]

\* supabase_logger.log_event(event_type, request_id, step, ...)
Event(event_type, rid, step) == [event_type |-> event_type, request_id |-> rid, step |-> step]

(***************************************************************************)
(* app/services/supabase_logger.py.  A write to the agent_logs table       *)
(* either succeeds or raises inside _insert_log.                           *)
(***************************************************************************)
SinkWrites == {"succeeds", "fails"}

LogReturned(stored) == [raised |-> FALSE, stored |-> stored]
LogRaised == [raised |-> TRUE, stored |-> FALSE]

\* a variant of _insert_log without the try/except of lines 77-92
_insert_log_unguarded(write) ==
  IF write = "fails" THEN LogRaised ELSE LogReturned(TRUE)

_insert_log(write) ==
  IF write = "fails" THEN LogReturned(FALSE) ELSE LogReturned(TRUE)

\* lines 50-65: without a client the event is only logged locally
log_event(the_sink, write) ==
  IF the_sink = "unconfigured" THEN LogReturned(FALSE) ELSE _insert_log(write)

\* the log_event calls of a step: the step handed events to the logger
\* exactly when it lengthened events
SinkWrite ==
  \E write \in SinkWrites :
    log_result' = IF events' # events THEN log_event(sink, write) ELSE log_result

\* the locals of a request before fact_check has run
Idle ==
  /\ next_uuid = 1
  /\ request_id = 0
  /\ agent_request_id = 0
  /\ events = <<>>
  /\ attempted = {}
  /\ claims = <<>>
  /\ i = 0
  /\ query_plan = <<>>
  /\ processed_claims = <<>>
  /\ evidence = None
  /\ q = 0
  /\ all_results = <<>>
  /\ domains_seen = EmptyDict
  /\ search_log = <<>>
  /\ failed_searches = 0
  /\ last_oracle = None
  /\ scores = None
  /\ bias_context = None
  /\ output = None
  /\ exc = NoException
  /\ response = None

Init ==
  /\ input_data \in Inputs
  /\ pc = "fact_check"
  /\ Idle
  /\ call = None
  /\ returned = None
  /\ sink \in {"configured", "unconfigured"}
  /\ log_result = None
  /\ frames = None
  /\ last_gather = None

(***************************************************************************)
(* app/main.py: fact_check, up to the call of tattva_agent.process.        *)
(***************************************************************************)
\* a variant of ErrorResult that leaves the request identifier out
ErrorResult_anonymous(message, rid) ==
  [status_code |-> HttpOk,
   body |-> [status |-> "error", message |-> message]]

ErrorResult(message, rid) ==
  [status_code |-> HttpOk,
   body |-> [status |-> "error", message |-> message, request_id |-> rid]]

\* lines 68 and 88: the two checks made before processing
StatusRejected(input) == input.status # "Success"
\* a variant of TranscriptRejected without the check of line 88
TranscriptRejected_skipped(input) == FALSE

TranscriptRejected(input) == input.transcript.text = ""

FactCheck ==
  /\ pc = "fact_check"
  /\ request_id' = next_uuid
  /\ next_uuid' = next_uuid + 1
  /\ LET logged == Append(events, Event("api_request", request_id', <<"fact_check_endpoint">>))
     IN  IF StatusRejected(input_data)
         THEN /\ response' = ErrorResult(<<"Input status is", input_data.status,
                                           "expected 'Success'">>, request_id')
              /\ events' = Append(logged, Event("api_response", request_id', <<"validation_error">>))
              /\ pc' = "done"
         ELSE IF TranscriptRejected(input_data)
         THEN /\ response' = ErrorResult(<<"Transcript text is empty">>, request_id')
              /\ events' = Append(logged, Event("api_response", request_id', <<"validation_error">>))
              /\ pc' = "done"
         ELSE /\ response' = response
              /\ events' = logged
              /\ pc' = "process"
  /\ UNCHANGED <<failed_searches, last_oracle, input_data, agent_request_id,
                 attempted, claims, i, query_plan, processed_claims,
                 evidence, q, all_results, domains_seen, search_log, scores,
                 bias_context, output, exc>>
  /\ SinkWrite
  /\ UNCHANGED <<call, returned, sink, frames, last_gather>>

(***************************************************************************)
(* app/agents/tattva_agent.py: TattvaAgent.process.                        *)
(***************************************************************************)
\* a variant of ProcessStart that does not log the start
ProcessStart_silent ==
  /\ pc = "process"
  /\ agent_request_id' = next_uuid
  /\ next_uuid' = next_uuid + 1
  /\ events' = events
  /\ pc' = "extract"
  /\ UNCHANGED <<failed_searches, last_oracle, input_data, request_id,
                 attempted, claims, i, query_plan, processed_claims,
                 evidence, q, all_results, domains_seen, search_log, scores,
                 bias_context, output, exc, response>>
  /\ SinkWrite
  /\ UNCHANGED <<call, returned, sink, frames, last_gather>>

\* lines 42-55
ProcessStart ==
  /\ pc = "process"
  /\ agent_request_id' = next_uuid
  /\ next_uuid' = next_uuid + 1
  /\ events' = Append(events, Event("agent_start", agent_request_id', <<"initialization">>))
  /\ pc' = "extract"
  /\ UNCHANGED <<failed_searches, last_oracle, input_data, request_id,
                 attempted, claims, i, query_plan, processed_claims,
                 evidence, q, all_results, domains_seen, search_log, scores,
                 bias_context, output, exc, response>>
  /\ SinkWrite
  /\ UNCHANGED <<call, returned, sink, frames, last_gather>>

\* beliefs = [b.dict() for b in input_data.beliefs] if input_data.beliefs else []
Beliefs(input) == input.beliefs

\* lines 58-77
ExtractClaims ==
  /\ pc = "extract"
  /\ \E oracle \in ExtractResponses :
       LET r == extract_claims(oracle)
           step == Event("processing_step", agent_request_id, <<"claim_extraction">>)
       IN  /\ last_oracle' = oracle
           /\ attempted' = attempted \cup {"claim_extraction"}
           /\ IF ~r.ok
              THEN /\ exc' = Exception(r.exc, "claim_extraction", 0)
                   /\ pc' = "process_except"
                   /\ UNCHANGED <<claims, i, events, output>>
              ELSE IF r.value = <<>>
              THEN /\ claims' = r.value
                   /\ events' = events \o
                        <<step, Event("agent_complete", agent_request_id, <<"finalization">>)>>
                   /\ output' = _create_empty_output("No verifiable claims found in content.")
                   /\ pc' = "fact_check_return"
                   /\ UNCHANGED <<i, exc>>
              ELSE /\ claims' = r.value
                   /\ events' = Append(events, step)
                   /\ i' = 1
                   /\ pc' = "plan"
                   /\ UNCHANGED <<output, exc>>
  /\ UNCHANGED <<failed_searches, input_data, next_uuid, request_id,
                 agent_request_id, query_plan, processed_claims, evidence, q,
                 all_results, domains_seen, search_log, scores, bias_context,
                 response>>
  /\ SinkWrite
  /\ UNCHANGED <<call, returned, sink, frames, last_gather>>

\* lines 83-90, and the entry of gather_evidence (evidence_gatherer.py 29-30)
PlanQueries ==
  /\ pc = "plan"
  /\ \E oracle \in PlanResponses :
       LET r == create_query_plan(oracle)
       IN  /\ last_oracle' = oracle
           /\ attempted' = attempted \cup {"query_planning"}
           /\ IF ~r.ok
              THEN /\ exc' = Exception(r.exc, "query_planning", i)
                   /\ pc' = "process_except"
                   /\ UNCHANGED <<claims, query_plan, events, q, all_results,
                                  domains_seen, search_log, failed_searches>>
              ELSE /\ query_plan' = r.value
                   /\ claims' = [claims EXCEPT ![i] = ("query_plan" :> r.value) @@ @]
                   /\ events' = Append(events, Event("processing_step", agent_request_id,
                                                     <<"query_planning_claim", i>>))
                   /\ q' = 1
                   /\ all_results' = <<>>
                   /\ domains_seen' = EmptyDict
                   /\ search_log' = <<>>
                   /\ failed_searches' = 0
                   /\ pc' = "search"
                   /\ UNCHANGED exc
  /\ UNCHANGED <<input_data, next_uuid, request_id, agent_request_id, i,
                 processed_claims, evidence, scores, bias_context, output,
                 response>>
  /\ SinkWrite
  /\ UNCHANGED <<call, returned, sink, frames, last_gather>>

(***************************************************************************)
(* evidence_gatherer.py, gather_evidence: one turn of the loop over        *)
(* query_plan[:6].  A query_item without 'query' raises KeyError at line   *)
(* 34; the handler catches it and line 46 formats query_item['query']      *)
(* again, so the KeyError leaves gather_evidence.                          *)
(***************************************************************************)
\* a variant of SearchStep without the try/except around search.invoke
SearchStep_unhandled(query_item, outcome, results, seen) ==
  IF "query" \notin DOMAIN query_item THEN Raise("KeyError")
  ELSE IF outcome.kind = "raise" THEN Raise("SearchError")
       ELSE Ok(DedupInto(_parse_tavily_results(outcome.results), results, seen))

SearchStep(query_item, outcome, results, seen) ==
  IF "query" \notin DOMAIN query_item THEN Raise("KeyError")
  ELSE IF outcome.kind = "raise"
       THEN Ok([all_results |-> results, domains_seen |-> seen])
       ELSE Ok(DedupInto(_parse_tavily_results(outcome.results), results, seen))

SearchQuery ==
  /\ pc = "search"
  /\ q <= Len(PlanSlice(query_plan))
  /\ \E outcome \in SearchOutcomes :
       LET query_item == PlanSlice(query_plan)[q]
           searched == "query" \in DOMAIN query_item
           r == SearchStep(query_item, outcome, all_results, domains_seen)
       IN  /\ attempted' = IF searched THEN attempted \cup {"search"} ELSE attempted
           /\ search_log' = IF searched THEN Append(search_log, query_item.query)
                            ELSE search_log
           /\ failed_searches' = IF searched /\ outcome.kind = "raise"
                                 THEN failed_searches + 1
                                 ELSE failed_searches
           /\ IF ~r.ok
              THEN /\ exc' = Exception(r.exc, "evidence_gathering", i)
                   /\ pc' = "process_except"
                   /\ UNCHANGED <<q, all_results, domains_seen>>
              ELSE /\ all_results' = r.value.all_results
                   /\ domains_seen' = r.value.domains_seen
                   /\ q' = q + 1
                   /\ UNCHANGED <<pc, exc>>
  /\ UNCHANGED <<input_data, next_uuid, request_id, agent_request_id, events,
                 claims, i, query_plan, processed_claims, evidence,
                 last_oracle, scores, bias_context, output, response>>
  /\ SinkWrite
  /\ UNCHANGED <<call, returned, sink, frames, last_gather>>

\* evidence_gatherer.py 49-58: the bundle gather_evidence returns, given the
\* answer of the evaluation oracle (consulted only when there are results)
\* a variant of EvidenceBundle without the early return of lines 49-54
EvidenceBundle_always_evaluates(results, oracle) ==
  MarkSuccessful(_evaluate_evidence(oracle))

EvidenceBundle(results, oracle) ==
  IF results = <<>> THEN Ok(NoEvidenceBundle)
  ELSE MarkSuccessful(_evaluate_evidence(oracle))

\* the end of gather_evidence, and tattva_agent.py 93-99
GatherReturn ==
  /\ pc = "search"
  /\ q > Len(PlanSlice(query_plan))
  /\ \E oracle \in EvalResponses :
       LET r == EvidenceBundle(all_results, oracle)
       IN  /\ attempted' = IF all_results = <<>> THEN attempted
                           ELSE attempted \cup {"evidence_evaluation"}
           /\ last_oracle' = IF all_results = <<>> THEN last_oracle ELSE oracle
           /\ IF ~r.ok
              THEN /\ exc' = Exception(r.exc, "evidence_gathering", i)
                   /\ pc' = "process_except"
                   /\ UNCHANGED <<evidence, events>>
              ELSE /\ evidence' = r.value
                   /\ events' = Append(events, Event("processing_step", agent_request_id,
                                                     <<"evidence_gathering_claim", i>>))
                   /\ pc' = "synth"
                   /\ UNCHANGED exc
  /\ q' = 0
  /\ all_results' = <<>>
  /\ domains_seen' = EmptyDict
  /\ UNCHANGED <<input_data, next_uuid, request_id, agent_request_id, claims,
                 i, query_plan, processed_claims, search_log,
                 failed_searches, scores, bias_context, output, response>>
  /\ SinkWrite
  /\ UNCHANGED <<call, returned, sink, frames, last_gather>>

\* a variant of AppendClaim that inserts at the front
AppendClaim_prepend(processed, claim) == <<claim>> \o processed

\* processed_claims.append(claim)
AppendClaim(processed, claim) == Append(processed, claim)

\* tattva_agent.py 102-115
SynthesizeVerdict ==
  /\ pc = "synth"
  /\ \E oracle \in SynthResponses :
       LET r == synthesize_verdict(oracle, evidence)
       IN  /\ last_oracle' = oracle
           /\ attempted' = attempted \cup {"verdict_synthesis"}
           /\ IF ~r.ok
              THEN /\ exc' = Exception(r.exc, "verdict_synthesis", i)
                   /\ pc' = "process_except"
                   /\ UNCHANGED <<claims, processed_claims, events, i>>
              ELSE /\ claims' = [claims EXCEPT ![i] =
                                   ("verdict" :> r.value.verdict)
                                   @@ ("evidence_strength" :> r.value.evidence_strength)
                                   @@ @]
                   /\ events' = Append(events, Event("processing_step", agent_request_id,
                                                     <<"verdict_synthesis_claim", i>>))
                   /\ processed_claims' = AppendClaim(processed_claims, claims'[i])
                   /\ IF i < Len(claims)
                      THEN i' = i + 1 /\ pc' = "plan"
                      ELSE i' = i /\ pc' = "score"
                   /\ UNCHANGED exc
  /\ evidence' = None
  /\ query_plan' = <<>>
  /\ search_log' = <<>>
  /\ failed_searches' = 0
  /\ UNCHANGED <<input_data, next_uuid, request_id, agent_request_id, q,
                 all_results, domains_seen, scores, bias_context, output,
                 response>>
  /\ SinkWrite
  /\ UNCHANGED <<call, returned, sink, frames, last_gather>>

\* tattva_agent.py 118-127
CalculateScores ==
  /\ pc = "score"
  /\ attempted' = attempted \cup {"score_calculation"}
  /\ LET r == calculate_scores(processed_claims, Beliefs(input_data))
     IN  IF ~r.ok
         THEN /\ exc' = Exception(r.exc, "score_calculation", 0)
              /\ pc' = "process_except"
              /\ UNCHANGED <<scores, events>>
         ELSE /\ scores' = r.value
              /\ events' = Append(events, Event("processing_step", agent_request_id,
                                                <<"score_calculation">>))
              /\ pc' = "bias"
              /\ UNCHANGED exc
  /\ UNCHANGED <<failed_searches, last_oracle, input_data, next_uuid,
                 request_id, agent_request_id, claims, i, query_plan,
                 processed_claims, evidence, q, all_results, domains_seen,
                 search_log, bias_context, output, response>>
  /\ SinkWrite
  /\ UNCHANGED <<call, returned, sink, frames, last_gather>>

\* tattva_agent.py 130-139
AnalyzeBias ==
  /\ pc = "bias"
  /\ \E oracle \in BiasResponses :
       LET r == analyze_bias(oracle)
       IN  /\ last_oracle' = oracle
           /\ attempted' = attempted \cup {"bias_analysis"}
           /\ IF ~r.ok
              THEN /\ exc' = Exception(r.exc, "bias_analysis", 0)
                   /\ pc' = "process_except"
                   /\ UNCHANGED <<bias_context, events>>
              ELSE /\ bias_context' = r.value
                   /\ events' = Append(events, Event("processing_step", agent_request_id,
                                                     <<"bias_analysis">>))
                   /\ pc' = "summary"
                   /\ UNCHANGED exc
  /\ UNCHANGED <<failed_searches, input_data, next_uuid, request_id,
                 agent_request_id, claims, i, query_plan, processed_claims,
                 evidence, q, all_results, domains_seen, search_log, scores,
                 output, response>>
  /\ SinkWrite
  /\ UNCHANGED <<call, returned, sink, frames, last_gather>>

\* tattva_agent.py 150-159: the limitations and the validated report
BuildOutput(summary, processed, the_scores, bias, input) ==
  LET limitations == _identify_limitations(processed, input)
  IN  IF ~limitations.ok THEN limitations
      ELSE TattvaOutput(summary, processed, the_scores.tattva_score,
                        the_scores.reality_distance, bias, limitations.value)

\* tattva_agent.py 142-171
GenerateSummary ==
  /\ pc = "summary"
  /\ \E oracle \in SummaryResponses :
       LET summary == _generate_summary(oracle)
           step == Event("processing_step", agent_request_id, <<"summary_generation">>)
       IN  /\ last_oracle' = oracle
           /\ attempted' = attempted \cup {"summary_generation"}
           /\ IF ~summary.ok
              THEN /\ exc' = Exception(summary.exc, "summary_generation", 0)
                   /\ pc' = "process_except"
                   /\ UNCHANGED <<output, events>>
              ELSE LET r == BuildOutput(summary.value, processed_claims, scores,
                                        bias_context, input_data)
                   IN  IF ~r.ok
                       THEN /\ exc' = Exception(r.exc, "output", 0)
                            /\ events' = Append(events, step)
                            /\ pc' = "process_except"
                            /\ UNCHANGED output
                       ELSE /\ output' = r.value
                            /\ events' = events \o
                                 <<step, Event("agent_complete", agent_request_id,
                                               <<"finalization">>)>>
                            /\ pc' = "fact_check_return"
                            /\ UNCHANGED exc
  /\ UNCHANGED <<failed_searches, input_data, next_uuid, request_id,
                 agent_request_id, claims, i, query_plan, processed_claims,
                 evidence, q, all_results, domains_seen, search_log, scores,
                 bias_context, response>>
  /\ SinkWrite
  /\ UNCHANGED <<call, returned, sink, frames, last_gather>>

\* a variant of ProcessExcept that re-raises without logging the error
ProcessExcept_unlogged ==
  /\ pc = "process_except"
  /\ events' = events
  /\ pc' = "fact_check_except"
  /\ UNCHANGED <<failed_searches, last_oracle, input_data, next_uuid,
                 request_id, agent_request_id, attempted, claims, i,
                 query_plan, processed_claims, evidence, q, all_results,
                 domains_seen, search_log, scores, bias_context, output, exc,
                 response>>
  /\ SinkWrite
  /\ UNCHANGED <<call, returned, sink, frames, last_gather>>

\* tattva_agent.py 173-181: log the error and re-raise
ProcessExcept ==
  /\ pc = "process_except"
  /\ events' = Append(events, Event("error", agent_request_id, <<"processing">>))
  /\ pc' = "fact_check_except"
  /\ UNCHANGED <<failed_searches, last_oracle, input_data, next_uuid,
                 request_id, agent_request_id, attempted, claims, i,
                 query_plan, processed_claims, evidence, q, all_results,
                 domains_seen, search_log, scores, bias_context, output, exc,
                 response>>
  /\ SinkWrite
  /\ UNCHANGED <<call, returned, sink, frames, last_gather>>

(***************************************************************************)
(* app/main.py: fact_check, after tattva_agent.process.                    *)
(***************************************************************************)
\* lines 112-130
FactCheckReturn ==
  /\ pc = "fact_check_return"
  /\ events' = Append(events, Event("api_response", request_id, <<"fact_check_complete">>))
  /\ response' = [status_code |-> HttpOk,
                  body |-> ("request_id" :> request_id) @@ output]
  /\ pc' = "done"
  /\ UNCHANGED <<failed_searches, last_oracle, input_data, next_uuid,
                 request_id, agent_request_id, attempted, claims, i,
                 query_plan, processed_claims, evidence, q, all_results,
                 domains_seen, search_log, scores, bias_context, output, exc>>
  /\ SinkWrite
  /\ UNCHANGED <<call, returned, sink, frames, last_gather>>

\* lines 132-151
FactCheckExcept ==
  /\ pc = "fact_check_except"
  /\ response' = ErrorResult(<<"Processing error:", exc.type>>, request_id)
  /\ events' = Append(events, Event("api_response", request_id, <<"processing_error">>))
  /\ pc' = "done"
  /\ UNCHANGED <<failed_searches, last_oracle, input_data, next_uuid,
                 request_id, agent_request_id, attempted, claims, i,
                 query_plan, processed_claims, evidence, q, all_results,
                 domains_seen, search_log, scores, bias_context, output, exc>>
  /\ SinkWrite
  /\ UNCHANGED <<call, returned, sink, frames, last_gather>>

Next ==
  \/ FactCheck
  \/ ProcessStart
  \/ ExtractClaims
  \/ PlanQueries
  \/ SearchQuery
  \/ GatherReturn
  \/ SynthesizeVerdict
  \/ CalculateScores
  \/ AnalyzeBias
  \/ GenerateSummary
  \/ ProcessExcept
  \/ FactCheckReturn
  \/ FactCheckExcept

Spec == Init /\ [][Next]_vars

(***************************************************************************)
(* app/utils/calibration.py and _calculate_evidence_strength, called on    *)
(* their own: the arguments are drawn at the start, the call returns.      *)
(***************************************************************************)
\* probabilities in (0,1) and temperatures > 0, in thousandths
Probabilities == {1, 5, 100, 500, 900, 995, 999}
Temperatures == {1, 500, 1000, 1450, 10000}

CalibrateCalls ==
  {[fn |-> "calibrate_probability", prob |-> p, temperature |-> t] :
     p \in Probabilities, t \in Temperatures}

\* evidence items as the evaluation oracle may score them, in [0,1] or not
ScoredItems ==
  {[source_url |-> Url(TRUE, FALSE, h), credibility |-> c, specificity |-> sp, recency |-> r] :
     h \in {"a.org", "b.org"}, c \in {0, 1000, 3000}, sp \in {0, 1000}, r \in {0, 1000}}

Bundles ==
  {NoEvidenceBundle,
   ("search_successful" :> TRUE) @@ FailedEvaluation,
   [overall_assessment |-> "nothing usable", search_successful |-> TRUE]}
    \cup {[evidence_items |-> items, overall_assessment |-> "assessed",
           search_successful |-> TRUE] :
            items \in BoundedSeq(ScoredItems, MaxItems) \ {<<>>}}

StrengthCalls == {[fn |-> "_calculate_evidence_strength", evidence |-> b] : b \in Bundles}

\* a claim as it stands after verdict synthesis
ScoredClaim(id, prominence, evidence_strength, label, truth_prob_cal) ==
  [id |-> id, prominence |-> prominence, evidence_strength |-> evidence_strength,
   verdict |-> [label |-> label, truth_prob_cal |-> truth_prob_cal]]

\* claim lists for calculate_tattva_score, of values in range or not
TattvaClaimLists ==
  BoundedSeq({ScoredClaim(0, p, e, l, c) :
                p \in {0, 800}, e \in {100, 350},
                l \in {"true", "mixed"}, c \in {0 - 500, 200, 995, 1500}},
             MaxScored)

TattvaCalls == {[fn |-> "calculate_tattva_score", claims |-> cl] : cl \in TattvaClaimLists}

\* claim lists for calculate_reality_distance: the k-th claim has id k; one
\* list holds a claim that has nothing but an id no belief names
DistanceClaimLists ==
  UNION {{[k \in 1..n |-> [cl[k] EXCEPT !.id = k]] :
            cl \in [1..n -> {ScoredClaim(0, p, e, "true", c) :
                               p \in {0, 800}, e \in {100, 900}, c \in {200, 995}}]} :
         n \in 0..MaxScored}
    \cup {<<[id |-> 9]>>}

\* beliefs: Belief.p is validated to [0,1]; claim 7 does not exist
BeliefUniverse ==
  BoundedSeq({[claim_id |-> c, p |-> p] : c \in {1, 2, 7}, p \in {0, 800}}, MaxBeliefs)

DistanceCalls ==
  {[fn |-> "calculate_reality_distance", claims |-> cl, beliefs |-> bl] :
     cl \in DistanceClaimLists, bl \in BeliefUniverse}

\* processed claims for _identify_limitations: evidence strengths on both
\* sides of 0.2 and of 0.35, with and without time references
LimitationClaims ==
  {[verdict |-> [label |-> l], evidence_strength |-> e, time_refs |-> t] :
     l \in {"unverified", "true"}, e \in {100, 200, 300, 900},
     t \in {<<>>, <<"2024">>}}

LimitationCalls ==
  {[fn |-> "_identify_limitations", claims |-> cl, input_data |-> [content_type |-> ct]] :
     cl \in BoundedSeq(LimitationClaims, MaxScored), ct \in ContentTypes}

CalibrationInit ==
  /\ input_data = None
  /\ pc = "call"
  /\ Idle
  /\ call \in CalibrateCalls \cup StrengthCalls \cup TattvaCalls \cup DistanceCalls
               \cup LimitationCalls
  /\ returned = None
  /\ sink = "unconfigured"
  /\ log_result = None
  /\ frames = None
  /\ last_gather = None

CallCalibrate ==
  /\ pc = "call"
  /\ call.fn = "calibrate_probability"
  /\ returned' = Ok(calibrate_probability(call.prob, call.temperature))
  /\ pc' = "returned"
  /\ UNCHANGED <<input_data, next_uuid, request_id, agent_request_id, events,
                 attempted, claims, i, query_plan, processed_claims, evidence,
                 q, all_results, domains_seen, search_log, failed_searches,
                 last_oracle, scores, bias_context, output, exc, response, call,
                 sink, log_result, frames, last_gather>>

CallEvidenceStrength ==
  /\ pc = "call"
  /\ call.fn = "_calculate_evidence_strength"
  /\ returned' = Ok(_calculate_evidence_strength(call.evidence))
  /\ pc' = "returned"
  /\ UNCHANGED <<input_data, next_uuid, request_id, agent_request_id, events,
                 attempted, claims, i, query_plan, processed_claims, evidence,
                 q, all_results, domains_seen, search_log, failed_searches,
                 last_oracle, scores, bias_context, output, exc, response, call,
                 sink, log_result, frames, last_gather>>

CallTattvaScore ==
  /\ pc = "call"
  /\ call.fn = "calculate_tattva_score"
  /\ returned' = calculate_tattva_score(call.claims)
  /\ pc' = "returned"
  /\ UNCHANGED <<input_data, next_uuid, request_id, agent_request_id, events,
                 attempted, claims, i, query_plan, processed_claims, evidence,
                 q, all_results, domains_seen, search_log, failed_searches,
                 last_oracle, scores, bias_context, output, exc, response, call,
                 sink, log_result, frames, last_gather>>

CallRealityDistance ==
  /\ pc = "call"
  /\ call.fn = "calculate_reality_distance"
  /\ returned' = calculate_reality_distance(call.claims, call.beliefs)
  /\ pc' = "returned"
  /\ UNCHANGED <<input_data, next_uuid, request_id, agent_request_id, events,
                 attempted, claims, i, query_plan, processed_claims, evidence,
                 q, all_results, domains_seen, search_log, failed_searches,
                 last_oracle, scores, bias_context, output, exc, response, call,
                 sink, log_result, frames, last_gather>>

CallIdentifyLimitations ==
  /\ pc = "call"
  /\ call.fn = "_identify_limitations"
  /\ returned' = _identify_limitations(call.claims, call.input_data)
  /\ pc' = "returned"
  /\ UNCHANGED <<input_data, next_uuid, request_id, agent_request_id, events,
                 attempted, claims, i, query_plan, processed_claims, evidence,
                 q, all_results, domains_seen, search_log, failed_searches,
                 last_oracle, scores, bias_context, output, exc, response, call,
                 sink, log_result, frames, last_gather>>

CalibrationNext ==
  \/ CallCalibrate
  \/ CallEvidenceStrength
  \/ CallTattvaScore
  \/ CallRealityDistance
  \/ CallIdentifyLimitations

CalibrationSpec == CalibrationInit /\ [][CalibrationNext]_vars

(***************************************************************************)
(* Two requests on the shared TattvaAgent (main.py 26).  fact_check and    *)
(* process are coroutines: each request has its own frame of locals, and   *)
(* control can pass from one request to the other at every await, that     *)
(* is after every stage.  The services are called synchronously, so one    *)
(* stage is one step.  The oracles answer a question by its content        *)
(* alone, whoever asks and whenever, so that a request has one report      *)
(* when it runs alone.                                                     *)
(***************************************************************************)
Requests == {1, 2}

\* the content of request r, a text that holds n claims
ContentOf(r, n) == <<r, n>>

ConcurrentInputs(r) ==
  {[status |-> "Success", content_type |-> "article",
    transcript |-> [text |-> ContentOf(r, n)], beliefs |-> bl] :
     n \in 0..MaxClaims,
     bl \in {<<>>, <<[claim_id |-> 10 * r + 1, p |-> 800]>>}}

\* the site the search tool finds for the queries of request r
HostOf(r) == IF r = 1 THEN "a.org" ELSE "b.org"

\* the claims the extraction oracle reads in a text: claim k of request r
\* has id 10 r + k
AnswerExtract(input) ==
  LET text == input.transcript.text
  IN  OracleObject([claims |->
        [k \in 1..text[2] |-> [ClaimOf(k) EXCEPT !.id = 10 * text[1] + k]]])

\* two queries for a claim, query j of claim id being 10 id + j
AnswerPlan(claim) ==
  OracleObject([query_plan |-> <<QueryItem(10 * claim.id + 1), QueryItem(10 * claim.id + 2)>>])

\* one result for a query, from the site of the request the query is about
SearchAnswer(query) ==
  [kind |-> "results",
   results |-> <<[title |-> "t", url |-> Url(TRUE, FALSE, HostOf(query \div 100)),
                  content |-> "c"]>>]

\* the evaluation oracle makes one evidence item of every result it is shown
AnswerEvaluate(claim, results) ==
  OracleObject([evidence_items |->
                  [k \in 1..Len(results) |-> EvidenceItemFrom(results[k].link)],
                overall_assessment |-> "assessed"])

AnswerSynthesis(claim, bundle) ==
  OracleObject([verdict |->
                  OracleVerdict("mostly_true", IF claim.id % 2 = 1 THEN 900 ELSE 300)])

AnswerBias ==
  OracleObject([bias_context |->
                  [bias_signals |-> <<"loaded language">>, rhetoric |-> <<>>,
                   missing_context |-> <<>>, notes |-> "n"]])

AnswerSummary == [kind |-> "text", content |-> "summary"]

NoLists == [by |-> 0, all_results |-> <<>>, domains_seen |-> EmptyDict]

\* a variant of gather_evidence_locals that goes on with the lists of the
\* previous call
gather_evidence_locals_kept(left) ==
  [all_results |-> left.all_results, domains_seen |-> left.domains_seen]

\* evidence_gatherer.py 29-30: all_results = [], domains_seen = {} are made
\* anew by every call, whatever lists the previous call left
gather_evidence_locals(left) ==
  [all_results |-> <<>>, domains_seen |-> EmptyDict]

\* evidence_gatherer.py 32-47: the loop over query_plan[:6]
RECURSIVE SearchLoop(_, _)
SearchLoop(plan, locals) ==
  IF plan = <<>> THEN locals
  ELSE SearchLoop(Tail(plan),
                  SearchStep(Head(plan), SearchAnswer(Head(plan).query),
                             locals.all_results, locals.domains_seen).value)

\* EvidenceGatherer.gather_evidence as one synchronous call: the lists it
\* built and the bundle it returns
gather_evidence(claim, plan, left) ==
  LET locals == SearchLoop(PlanSlice(plan), gather_evidence_locals(left))
  IN  [all_results |-> locals.all_results,
       domains_seen |-> locals.domains_seen,
       evidence |-> EvidenceBundle(locals.all_results,
                                   AnswerEvaluate(claim, locals.all_results)).value]

\* tattva_agent.py 103-104: claim['verdict'], claim['evidence_strength']
WithVerdict(claim, verdict_result) ==
  ("verdict" :> verdict_result.verdict)
    @@ ("evidence_strength" :> verdict_result.evidence_strength) @@ claim

\* tattva_agent.py 79-115 for a request that runs alone: the loop over the
\* claims from claim k on
RECURSIVE ProcessClaims(_, _, _, _)
ProcessClaims(the_claims, k, processed, left) ==
  IF k > Len(the_claims) THEN processed
  ELSE LET plan == create_query_plan(AnswerPlan(the_claims[k])).value
           claim == ("query_plan" :> plan) @@ the_claims[k]
           gathered == gather_evidence(claim, plan, left)
           verdict_result == synthesize_verdict(AnswerSynthesis(claim, gathered.evidence),
                                                gathered.evidence).value
       IN  ProcessClaims(the_claims, k + 1,
                         AppendClaim(processed, WithVerdict(claim, verdict_result)),
                         gathered)

\* tattva_agent.py 39-171: the report of a request that runs alone
RunAlone(input) ==
  LET the_claims == extract_claims(AnswerExtract(input)).value
  IN  IF the_claims = <<>>
      THEN _create_empty_output("No verifiable claims found in content.")
      ELSE LET processed == ProcessClaims(the_claims, 1, <<>>, NoLists)
           IN  BuildOutput(_generate_summary(AnswerSummary).value, processed,
                           calculate_scores(processed, Beliefs(input)).value,
                           analyze_bias(AnswerBias).value, input).value

\* the locals of process when the coroutine starts; gathered_after names the
\* request whose gather_evidence call came right before this request's latest
Frame(input) ==
  [input_data |-> input, pc |-> "extract", claims |-> <<>>, i |-> 0,
   query_plan |-> <<>>, evidence |-> None, all_results |-> <<>>,
   domains_seen |-> EmptyDict, gathered_after |-> 0, processed_claims |-> <<>>,
   scores |-> None, bias_context |-> None, output |-> None]

ConcurrentInit ==
  /\ input_data = None
  /\ pc = "concurrent"
  /\ Idle
  /\ call = None
  /\ returned = None
  /\ sink = "unconfigured"
  /\ log_result = None
  /\ \E first \in ConcurrentInputs(1), second \in ConcurrentInputs(2) :
       frames = [r \in Requests |-> IF r = 1 THEN Frame(first) ELSE Frame(second)]
  /\ last_gather = NoLists

\* the variables of the single request and of the calls, which two requests
\* in flight leave alone
single == <<input_data, pc, next_uuid, request_id, agent_request_id, events, attempted,
            claims, i, query_plan, processed_claims, evidence, q, all_results,
            domains_seen, search_log, failed_searches, last_oracle, scores,
            bias_context, output, exc, response, call, returned, sink, log_result>>

\* tattva_agent.py 59-74
ExtractStep ==
  \E r \in Requests :
    LET f == frames[r]
        extracted == extract_claims(AnswerExtract(f.input_data)).value
    IN  /\ f.pc = "extract"
        /\ frames' = [frames EXCEPT ![r] =
             IF extracted = <<>>
             THEN [f EXCEPT !.pc = "returned",
                            !.output = _create_empty_output("No verifiable claims found in content.")]
             ELSE [f EXCEPT !.pc = "plan", !.claims = extracted, !.i = 1]]
        /\ UNCHANGED <<last_gather, single>>

\* tattva_agent.py 83-90
PlanStep ==
  \E r \in Requests :
    LET f == frames[r]
    IN  /\ f.pc = "plan"
        /\ LET plan == create_query_plan(AnswerPlan(f.claims[f.i])).value
           IN  frames' = [frames EXCEPT ![r] =
                 [f EXCEPT !.pc = "gather", !.query_plan = plan,
                           !.claims[f.i] = ("query_plan" :> plan) @@ @]]
        /\ UNCHANGED <<last_gather, single>>

\* tattva_agent.py 93-99
GatherStep ==
  \E r \in Requests :
    LET f == frames[r]
    IN  /\ f.pc = "gather"
        /\ LET gathered == gather_evidence(f.claims[f.i], f.query_plan, last_gather)
           IN  /\ frames' = [frames EXCEPT ![r] =
                     [f EXCEPT !.pc = "synth", !.evidence = gathered.evidence,
                               !.all_results = gathered.all_results,
                               !.domains_seen = gathered.domains_seen,
                               !.gathered_after = last_gather.by]]
               /\ last_gather' = [by |-> r, all_results |-> gathered.all_results,
                                  domains_seen |-> gathered.domains_seen]
        /\ UNCHANGED single

\* tattva_agent.py 102-115
SynthesisStep ==
  \E r \in Requests :
    LET f == frames[r]
    IN  /\ f.pc = "synth"
        /\ LET verdict_result ==
                 synthesize_verdict(AnswerSynthesis(f.claims[f.i], f.evidence),
                                    f.evidence).value
               claim == WithVerdict(f.claims[f.i], verdict_result)
           IN  frames' = [frames EXCEPT ![r] =
                 [f EXCEPT !.claims[f.i] = claim,
                           !.processed_claims = AppendClaim(@, claim),
                           !.i = IF f.i < Len(f.claims) THEN f.i + 1 ELSE f.i,
                           !.pc = IF f.i < Len(f.claims) THEN "plan" ELSE "score"]]
        /\ UNCHANGED <<last_gather, single>>

\* tattva_agent.py 118-127
ScoreStep ==
  \E r \in Requests :
    LET f == frames[r]
    IN  /\ f.pc = "score"
        /\ frames' = [frames EXCEPT ![r] =
             [f EXCEPT !.pc = "bias",
                       !.scores = calculate_scores(f.processed_claims,
                                                   Beliefs(f.input_data)).value]]
        /\ UNCHANGED <<last_gather, single>>

\* tattva_agent.py 130-139
BiasStep ==
  \E r \in Requests :
    LET f == frames[r]
    IN  /\ f.pc = "bias"
        /\ frames' = [frames EXCEPT ![r] =
             [f EXCEPT !.pc = "summary", !.bias_context = analyze_bias(AnswerBias).value]]
        /\ UNCHANGED <<last_gather, single>>

\* tattva_agent.py 142-171
SummaryStep ==
  \E r \in Requests :
    LET f == frames[r]
    IN  /\ f.pc = "summary"
        /\ frames' = [frames EXCEPT ![r] =
             [f EXCEPT !.pc = "returned",
                       !.output = BuildOutput(_generate_summary(AnswerSummary).value,
                                              f.processed_claims, f.scores,
                                              f.bias_context, f.input_data).value]]
        /\ UNCHANGED <<last_gather, single>>

ConcurrentNext ==
  \/ ExtractStep
  \/ PlanStep
  \/ GatherStep
  \/ SynthesisStep
  \/ ScoreStep
  \/ BiasStep
  \/ SummaryStep

ConcurrentSpec == ConcurrentInit /\ [][ConcurrentNext]_vars

(***************************************************************************)
(* Properties.                                                             *)
(***************************************************************************)
IsReport(body) == "claims" \in DOMAIN body
IsError(body) == "status" \in DOMAIN body /\ body.status = "error"

PerClaimStages == {"query_planning", "evidence_gathering", "verdict_synthesis"}

\* C1: an exception raised while one claim is planned, searched or judged
\* does not abort the request: the response is a report that holds every
\* extracted claim, the failing one with the fallback verdict ('unverified',
\* evidence_strength 0.1).
C1_FailureIsolatedToClaim ==
  (pc = "done" /\ exc # NoException /\ exc.stage \in PerClaimStages) =>
    /\ IsReport(response.body)
    /\ Len(response.body.claims) = Len(claims)
    /\ HasKeys(response.body.claims[exc.claim_index], {"verdict", "evidence_strength"})
    /\ HasLabel(response.body.claims[exc.claim_index])
    /\ response.body.claims[exc.claim_index].verdict.label = "unverified"
    /\ response.body.claims[exc.claim_index].evidence_strength = FallbackEvidenceStrength

\* C2: every claim that extraction returned ends in the report with a verdict
\* (label and truth_prob_cal) and an evidence_strength, whatever the oracle
\* answered afterwards.
C2_EveryClaimScored ==
  (pc = "done" /\ claims # <<>>) =>
    /\ IsReport(response.body)
    /\ Len(response.body.claims) = Len(claims)
    /\ \A k \in 1..Len(claims) :
         /\ HasKeys(response.body.claims[k], {"verdict", "evidence_strength"})
         /\ HasKeys(response.body.claims[k].verdict, {"label", "truth_prob_cal"})

\* oracle output that is not the JSON object with a 'verdict' the synthesis expects
MalformedVerdictOutput(oracle) ==
  \/ oracle.kind \in {"text", "nonobject"}
  \/ oracle.kind = "object" /\ "verdict" \notin DOMAIN oracle.value

\* C3: when the synthesis oracle's output is malformed or unparseable,
\* synthesize_verdict raises nothing and the claim gets the default verdict:
\* 'unverified', truth_prob 0.5, truth_prob_cal = calibrate(0.5, temperature),
\* no citations, gaps = ['Evidence evaluation failed'], evidence_strength 0.1.
C3_MalformedOutputGivesDefault ==
  [][(pc = "synth" /\ MalformedVerdictOutput(last_oracle')) =>
       /\ pc' # "process_except"
       /\ HasKeys(claims'[i].verdict,
                  {"label", "truth_prob", "truth_prob_cal", "citations", "gaps"})
       /\ claims'[i].verdict.label = "unverified"
       /\ claims'[i].verdict.truth_prob = 500
       /\ claims'[i].verdict.truth_prob_cal
            = calibrate_probability(500, CALIBRATION_TEMPERATURE)
       /\ claims'[i].verdict.citations = <<>>
       /\ claims'[i].verdict.gaps = <<"Evidence evaluation failed">>
       /\ claims'[i].evidence_strength = 100]_vars

\* what extraction said of a claim, without what the pipeline attached to it
AsExtracted(claim) ==
  [f \in {"id", "text", "type", "prominence", "time_refs", "named_entities"} |-> claim[f]]

\* C4: a returned report lists exactly the extracted claims, one entry each,
\* in the order of extraction.
C4_ReportKeepsExtractionOrder ==
  (pc = "done" /\ IsReport(response.body)) =>
    /\ Len(response.body.claims) = Len(claims)
    /\ \A k \in 1..Len(claims) :
         AsExtracted(response.body.claims[k]) = AsExtracted(ClaimOf(claims[k].id))
    /\ [k \in 1..Len(claims) |-> response.body.claims[k].id]
         = [k \in 1..Len(claims) |-> claims[k].id]

\* a report of two claims or more whose ids were extracted in descending order
C4_Witness ==
  /\ pc = "done"
  /\ IsReport(response.body)
  /\ Len(response.body.claims) >= 2
  /\ response.body.claims[1].id > response.body.claims[2].id

\* extraction ran, raised nothing and returned no claim
ZeroClaims ==
  "claim_extraction" \in attempted /\ exc = NoException /\ claims = <<>>

\* C5: with zero claims extracted, process returns the empty report (no
\* claims, score 0, reality distance 'needs_user_input' with value 0, the one
\* limitation 'No verifiable claims found in content.') and nothing after
\* extraction is attempted, beliefs or not.
C5_ZeroClaimsShortCircuit ==
  ZeroClaims =>
    /\ attempted = {"claim_extraction"}
    /\ pc \in {"fact_check_return", "done"}
    /\ output.claims = <<>>
    /\ output.tattva_score = 0
    /\ output.reality_distance.status = "needs_user_input"
    /\ output.reality_distance.value = 0
    /\ output.limitations = <<Notice("No verifiable claims found in content.")>>
    /\ pc = "done" =>
         /\ IsReport(response.body)
         /\ response.body.claims = <<>>
         /\ response.body.tattva_score = 0
         /\ response.body.reality_distance.status = "needs_user_input"

\* zero claims for a request that supplied beliefs
C5_Witness ==
  pc = "done" /\ ZeroClaims /\ input_data.beliefs # <<>>

Accepted(input) == input.status = "Success" /\ input.transcript.text # ""

\* C6: process runs only for a request with status 'Success' and a non-empty
\* transcript text; any other request gets an error result and neither
\* process nor any oracle or search call happens.
C6_RejectedWithoutProcessing ==
  /\ (agent_request_id # 0 \/ attempted # {} \/ pc \notin {"fact_check", "done"})
       => Accepted(input_data)
  /\ (pc = "done" /\ ~Accepted(input_data)) =>
       /\ IsError(response.body)
       /\ response.body.request_id = request_id
       /\ attempted = {}
       /\ agent_request_id = 0
       /\ \A k \in 1..Len(events) : events[k].event_type \in {"api_request", "api_response"}

\* a 'Success' request with an empty transcript, answered with the error result
C6_Witness ==
  /\ pc = "done"
  /\ input_data.status = "Success"
  /\ input_data.transcript.text = ""
  /\ IsError(response.body)
  /\ attempted = {}

Queries(plan) == [k \in 1..Len(plan) |-> plan[k].query]

\* C7: a search call that raises is skipped: it adds no result, what was
\* collected stays, no exception leaves gather_evidence, the loop moves on,
\* and gather_evidence returns only after every entry of query_plan[:6] was
\* searched.
C7_FailedSearchSkipped ==
  [][/\ (pc = "search" /\ failed_searches' = failed_searches + 1) =>
          /\ all_results' = all_results
          /\ domains_seen' = domains_seen
          /\ pc' = "search"
          /\ exc' = NoException
          /\ q' = q + 1
     /\ (pc = "search" /\ pc' = "synth") =>
          search_log = Queries(PlanSlice(query_plan))]_vars

\* gather_evidence returned a bundle built from collected results although
\* some of its six searches raised
C7_Witness ==
  /\ pc = "synth"
  /\ Len(search_log) = MaxQueries
  /\ failed_searches >= 1
  /\ evidence.search_successful

\* C8: when every search of a claim raises, nothing is collected; when
\* nothing was collected the bundle is the 'No evidence found' one
\* (search_successful false, no items), the evaluation oracle is not asked,
\* and the claim goes on to verdict synthesis with that bundle;
\* search_successful is false exactly when nothing was collected.
C8_NoResultsBundle ==
  [][/\ (pc = "search" /\ failed_searches = Len(search_log)) => all_results = <<>>
     /\ (pc = "search" /\ pc' = "synth") =>
          /\ evidence'.search_successful <=> all_results # <<>>
          /\ all_results = <<>> =>
               /\ evidence' = NoEvidenceBundle
               /\ evidence'.evidence_items = <<>>
               /\ evidence'.overall_assessment = "No evidence found"
               /\ attempted' = attempted
               /\ last_oracle' = last_oracle
     /\ (pc = "search" /\ q > Len(PlanSlice(query_plan)) /\ all_results = <<>>) =>
          pc' = "synth"
     /\ pc = "synth" => "verdict_synthesis" \in attempted'
     /\ (pc = "synth" /\ ~evidence.search_successful /\ pc' # "process_except") =>
          claims'[i].evidence_strength = NoEvidenceStrength]_vars

\* all six searches of a claim raised and the claim stands before synthesis
C8_Witness ==
  /\ pc = "synth"
  /\ Len(search_log) = MaxQueries
  /\ failed_searches = MaxQueries
  /\ evidence = NoEvidenceBundle

\* no entry of the plan can be searched
NoUsableQuery(plan) == \A k \in 1..Len(plan) : "query" \notin DOMAIN plan[k]

\* C9: an empty or malformed plan (unparseable text, no query_plan field,
\* entries without a 'query') is not fatal: no turn of the search loop
\* raises, and with no usable query gather_evidence returns the
\* 'No evidence found' bundle to verdict synthesis.
C9_MalformedPlanNotFatal ==
  [][/\ (pc = "search" /\ q <= Len(PlanSlice(query_plan))) => pc' = "search"
     /\ (pc = "search" /\ q > Len(PlanSlice(query_plan)) /\ NoUsableQuery(query_plan)) =>
          (pc' = "synth" /\ evidence' = NoEvidenceBundle)]_vars

\* C10: gather_evidence searches at most 6 times for a claim, for the first
\* entries of the plan in plan order (all of the first six when it returns),
\* and leaves the plan as it was.
C10_AtMostSixSearches ==
  [][pc = "search" =>
       /\ Len(search_log') <= MaxQueries
       /\ Len(search_log') <= Len(query_plan)
       /\ search_log' = [k \in 1..Len(search_log') |-> query_plan[k].query]
       /\ query_plan' = query_plan
       /\ claims' = claims
       /\ claims[i].query_plan = query_plan
       /\ pc' = "synth" => Len(search_log') = Min(MaxQueries, Len(query_plan))]_vars

\* gather_evidence returned after six searches for a plan of more than six entries
C10_Witness ==
  /\ pc = "synth"
  /\ Len(search_log) = MaxQueries
  /\ Len(claims[i].query_plan) > MaxQueries

\* the items of a bundle that come from one site, 'www.' or not
ItemsOfHost(bundle, host) ==
  LET items == _get(bundle, "evidence_items", <<>>)
  IN  {k \in 1..Len(items) : items[k].source_url.host = host}

\* C11: in every bundle gather_evidence returns, no source domain (a leading
\* 'www.' ignored) contributes more than 2 evidence items.
C11_AtMostTwoItemsPerDomain ==
  pc = "synth" =>
    \A host \in {"a.org", "b.org"} :
      Cardinality(ItemsOfHost(evidence, host)) <= MaxPerDomain

\* the verdict's truth_prob_cal is the calibration of its own truth_prob
Calibrated(verdict) ==
  /\ "truth_prob_cal" \in DOMAIN verdict
  /\ verdict.truth_prob_cal
       = calibrate_probability(_get(verdict, "truth_prob", DefaultTruthProb),
                               CALIBRATION_TEMPERATURE)

\* C12: every verdict attached to a claim has truth_prob_cal =
\* calibrate(truth_prob, CALIBRATION_TEMPERATURE), with truth_prob 0.5 when
\* the oracle gave none; a truth_prob_cal of the oracle is never kept; once
\* attached, the verdict's truth_prob and truth_prob_cal stay as they are, up
\* to and in the report.
C12_CalibratedFromTruthProb ==
  [][/\ \A k \in 1..Len(claims') :
          "verdict" \in DOMAIN claims'[k] => Calibrated(claims'[k].verdict)
     /\ \A k \in 1..Len(processed_claims') : Calibrated(processed_claims'[k].verdict)
     /\ \A k \in 1..Len(claims) :
          "verdict" \in DOMAIN claims[k] =>
            /\ "verdict" \in DOMAIN claims'[k]
            /\ claims'[k].verdict = claims[k].verdict
     /\ (pc' = "done" /\ IsReport(response'.body)) =>
          \A k \in 1..Len(response'.body.claims) :
            response'.body.claims[k].verdict = claims[k].verdict]_vars

\* a report whose claim was judged by an oracle that supplied truth_prob 0.9
\* and a truth_prob_cal of its own, which the report does not carry
C12_Witness ==
  /\ pc = "done"
  /\ IsReport(response.body)
  /\ \E k \in 1..Len(response.body.claims) :
       /\ response.body.claims[k].verdict.truth_prob = 900
       /\ response.body.claims[k].verdict.truth_prob_cal # 990

Returned(fn) == pc = "returned" /\ call.fn = fn

\* C13: calibrate_probability returns a value within [0.005, 0.995] for every
\* probability in (0,1) and every temperature > 0.
C13_CalibrateWithinBounds ==
  Returned("calibrate_probability") =>
    /\ returned.ok
    /\ returned.value >= ProbFloor
    /\ returned.value <= ProbCeil

\* a probability next to 1 at a tiny temperature: the sigmoid saturates and
\* the result is the upper bound
C13_Witness ==
  /\ Returned("calibrate_probability")
  /\ call.prob = 999
  /\ call.temperature = 1
  /\ returned = Ok(ProbCeil)

NoItems(bundle) == _get(bundle, "evidence_items", <<>>) = <<>>

\* C14: the evidence strength of a bundle without evidence items is exactly
\* 0.1, whether the search found nothing or the evaluation failed.
C14_NoItemsGivesSentinel ==
  (Returned("_calculate_evidence_strength") /\ NoItems(call.evidence)) =>
    returned = Ok(100)

\* the bundle of a failed evaluation (results were found, no item came back)
C14_Witness ==
  /\ Returned("_calculate_evidence_strength")
  /\ call.evidence.overall_assessment = "Failed to evaluate evidence"
  /\ call.evidence.search_successful
  /\ returned = Ok(100)

\* C15: the evidence strength of any bundle is within [0,1], whatever scores
\* the oracle gave its items.
C15_StrengthWithinUnitInterval ==
  Returned("_calculate_evidence_strength") =>
    /\ returned.value >= 0
    /\ returned.value <= 1000

\* the formula of the Tattva score, from its terms: w = prominence * (0.5 +
\* 0.5 * evidence_strength) (here 2 w, the scale cancels in alpha = w /
\* sum(w)), alpha uniform when every w is zero
W(c) == (c.prominence * (1000 + c.evidence_strength)) \div 1000

AlphaMean100(cl, x) ==
  LET n == Len(cl)
      sum_w == SumSeq([k \in 1..n |-> W(cl[k])])
  IN  IF \A k \in 1..n : W(cl[k]) = 0
      THEN (100 * SumSeq([k \in 1..n |-> x[k]])) \div n
      ELSE (100 * SumSeq([k \in 1..n |-> W(cl[k]) * x[k]])) \div sum_w

TattvaFormula(cl) ==
  LET n == Len(cl)
      conflicts == Cardinality({k \in 1..n : cl[k].verdict.label = "mixed"})
      thin == Cardinality({k \in 1..n : cl[k].evidence_strength < 350})
      base == AlphaMean100(cl, [k \in 1..n |-> cl[k].verdict.truth_prob_cal])
      penalty == (100 * (400 * conflicts + 300 * thin)) \div n
  IN  clip(base - penalty, 0, 100000)

\* C16: for a non-empty claim list calculate_tattva_score is
\* clamp(100 * sum(alpha_i * truth_prob_cal_i)
\*       - 100 * (0.4 * conflict_rate + 0.3 * thin_evidence_rate), 0, 100);
\* one claim that is not 'mixed' and has evidence_strength >= 0.35 scores
\* exactly 100 * truth_prob_cal.
C16_TattvaScoreFormula ==
  (Returned("calculate_tattva_score") /\ call.claims # <<>>) =>
    /\ returned = Ok(TattvaFormula(call.claims))
    /\ (/\ Len(call.claims) = 1
        /\ call.claims[1].verdict.label # "mixed"
        /\ call.claims[1].evidence_strength >= 350
        /\ call.claims[1].verdict.truth_prob_cal \in 0..1000) =>
         returned = Ok(100 * call.claims[1].verdict.truth_prob_cal)

\* two claims of unequal weight, the first 'mixed' with thin evidence, and a
\* score that no clamp produced
C16_Witness ==
  /\ Returned("calculate_tattva_score")
  /\ Len(call.claims) = 2
  /\ call.claims[1].verdict.label = "mixed"
  /\ call.claims[1].evidence_strength < 350
  /\ call.claims[2].verdict.label = "true"
  /\ W(call.claims[1]) # W(call.claims[2])
  /\ W(call.claims[1]) > 0
  /\ call.claims[1].verdict.truth_prob_cal # call.claims[2].verdict.truth_prob_cal
  /\ returned.ok
  /\ returned.value > 0
  /\ returned.value < 100000

\* C17: calculate_tattva_score returns a value within [0,100] for every
\* claim list, whatever its length and values, and exactly 0.0 for the empty
\* list.
C17_TattvaScoreWithinRange ==
  Returned("calculate_tattva_score") =>
    /\ returned.ok
    /\ returned.value >= 0
    /\ returned.value <= 100000
    /\ call.claims = <<>> => returned = Ok(0)

\* a 'mixed' claim with thin evidence and a low truth_prob_cal: the penalty
\* exceeds the base score and the score is 0
C17_Witness ==
  /\ Returned("calculate_tattva_score")
  /\ Len(call.claims) = 1
  /\ call.claims[1].verdict.label = "mixed"
  /\ call.claims[1].evidence_strength < 350
  /\ call.claims[1].verdict.truth_prob_cal = 200
  /\ returned = Ok(0)

\* C18: with an empty beliefs list calculate_reality_distance returns status
\* 'needs_user_input' and value 0.0 for every claim list, and reads no claim.
C18_NoBeliefsNeedsUserInput ==
  (Returned("calculate_reality_distance") /\ call.beliefs = <<>>) =>
    /\ returned.ok
    /\ returned.value.status = "needs_user_input"
    /\ returned.value.value = 0

\* no beliefs, and a claim that has no verdict to read
C18_Witness ==
  /\ Returned("calculate_reality_distance")
  /\ call.beliefs = <<>>
  /\ Len(call.claims) = 1
  /\ "verdict" \notin DOMAIN call.claims[1]
  /\ returned.ok
  /\ returned.value.status = "needs_user_input"

\* the beliefs that name a claim, and the one that counts (the last)
Naming(beliefs, id) == {j \in 1..Len(beliefs) : beliefs[j].claim_id = id}

Deviation(beliefs, c) ==
  IF Naming(beliefs, c.id) = {} THEN 0
  ELSE LET j == CHOOSE j \in Naming(beliefs, c.id) : \A m \in Naming(beliefs, c.id) : m <= j
           d == beliefs[j].p - c.verdict.truth_prob_cal
       IN  IF d >= 0 THEN d ELSE 0 - d

\* C19: with beliefs and claims both non-empty, calculate_reality_distance
\* returns status 'ok', value 100 * sum over the claims a belief names of
\* alpha_i * |belief_i - truth_prob_cal_i| with alpha the Tattva weights
\* normalised over all claims, and notes that count the matched claims out
\* of all claims; unmatched claims and beliefs naming no claim add nothing.
C19_RealityDistanceFormula ==
  (/\ Returned("calculate_reality_distance")
   /\ call.beliefs # <<>>
   /\ call.claims # <<>>
   /\ \A k \in 1..Len(call.claims) : "verdict" \in DOMAIN call.claims[k]) =>
    LET cl == call.claims
        n == Len(cl)
    IN  /\ returned.ok
        /\ returned.value.status = "ok"
        /\ returned.value.value
             = AlphaMean100(cl, [k \in 1..n |-> Deviation(call.beliefs, cl[k])])
        /\ returned.value.notes
             = <<"Based on",
                 Cardinality({k \in 1..n : Naming(call.beliefs, cl[k].id) # {}}),
                 "matched beliefs out of", n, "claims.">>

\* two claims of unequal weight; the beliefs name the first and a claim that
\* does not exist; the distance is positive and counts one match of two
C19_Witness ==
  /\ Returned("calculate_reality_distance")
  /\ Len(call.claims) = 2
  /\ W(call.claims[1]) # W(call.claims[2])
  /\ W(call.claims[1]) > 0
  /\ W(call.claims[2]) > 0
  /\ {call.beliefs[j].claim_id : j \in 1..Len(call.beliefs)} = {1, 7}
  /\ returned.ok
  /\ returned.value.value > 0
  /\ returned.value.notes[2] = 1

ReportFields ==
  {"summary", "claims", "tattva_score", "reality_distance", "bias_context",
   "limitations", "request_id"}

\* C20: every request fact_check handles is answered with status code 200,
\* by a complete report or, when validation fails or anything raises while
\* processing, by an error payload (status 'error', a message, the request
\* identifier); no exception leaves the handler: one in flight is always in
\* the hands of an except clause, and the handler goes on until it answers.
C20_AlwaysAnswersWith200 ==
  /\ pc = "done" =>
       /\ response.status_code = 200
       /\ "request_id" \in DOMAIN response.body
       /\ response.body.request_id = request_id
       /\ IF ~Accepted(input_data) \/ exc # NoException
          THEN /\ IsError(response.body)
               /\ DOMAIN response.body = {"status", "message", "request_id"}
          ELSE /\ IsReport(response.body)
               /\ DOMAIN response.body = ReportFields
  /\ exc # NoException => pc \in {"process_except", "fact_check_except", "done"}
  /\ pc # "done" => ENABLED Next

\* an accepted request during whose processing something raised, answered
\* with the error payload
C20_Witness ==
  /\ pc = "done"
  /\ Accepted(input_data)
  /\ exc # NoException
  /\ response.status_code = 200
  /\ IsError(response.body)
  /\ response.body.request_id = request_id

AllStages ==
  {"claim_extraction", "query_planning", "verdict_synthesis", "score_calculation",
   "bias_analysis", "summary_generation"}

UnverifiedIn(cl) == Cardinality({k \in 1..Len(cl) : cl[k].verdict.label = "unverified"})
WeakIn(cl) == Cardinality({k \in 1..Len(cl) : cl[k].evidence_strength < 350})
LimitedIn(cl) == Cardinality({k \in 1..Len(cl) : cl[k].evidence_strength <= 200})
UndatedIn(cl) == Cardinality({k \in 1..Len(cl) : cl[k].time_refs = <<>>})

Holds(limitations, entry) == \E j \in 1..Len(limitations) : limitations[j] = entry
HoldsText(limitations, text) == \E j \in 1..Len(limitations) : limitations[j].text = text

UnverifiedText == "claims could not be verified due to insufficient evidence"
WeakText == "claims have weak supporting evidence"
LimitedText == "Search returned limited results for claims"
UndatedText == "Many claims lack clear time references, affecting verification accuracy"
TranscriptText == "Analysis based on transcript only; visual elements not verified"
NothingText == "No significant limitations identified"

\* C22: for a non-empty claim list _identify_limitations returns a non-empty
\* list; it holds the unverified entry exactly when some claim is
\* 'unverified' and the weak-evidence entry exactly when some claim has
\* evidence_strength < 0.35, each with the count of such claims; it is the
\* single notice 'No significant limitations identified' exactly when no
\* trigger fires.
C22_LimitationsEntries ==
  (Returned("_identify_limitations") /\ call.claims # <<>>) =>
    LET cl == call.claims
        limitations == returned.value
        triggered ==
          \/ UnverifiedIn(cl) > 0
          \/ WeakIn(cl) > 0
          \/ LimitedIn(cl) > 0
          \/ 2 * UndatedIn(cl) > Len(cl)
          \/ call.input_data.content_type = "youtube"
    IN  /\ returned.ok
        /\ limitations # <<>>
        /\ HoldsText(limitations, UnverifiedText) <=> UnverifiedIn(cl) > 0
        /\ HoldsText(limitations, UnverifiedText) =>
             Holds(limitations, [count |-> UnverifiedIn(cl), text |-> UnverifiedText])
        /\ HoldsText(limitations, WeakText) <=> WeakIn(cl) > 0
        /\ HoldsText(limitations, WeakText) =>
             Holds(limitations, [count |-> WeakIn(cl), text |-> WeakText])
        /\ (limitations = <<[text |-> NothingText]>>) <=> ~triggered
        /\ HoldsText(limitations, NothingText) => Len(limitations) = 1

\* two claims, one 'unverified' and both of weak evidence: both entries, with
\* counts 1 and 2
C22_Witness ==
  /\ Returned("_identify_limitations")
  /\ Len(call.claims) = 2
  /\ returned.ok
  /\ Holds(returned.value, [count |-> 1, text |-> UnverifiedText])
  /\ Holds(returned.value, [count |-> 2, text |-> WeakText])

EntryCount(limitations, text) ==
  (CHOOSE e \in {limitations[j] : j \in 1..Len(limitations)} : e.text = text).count

\* C30: a 'Search returned limited results' entry (claims with
\* evidence_strength <= 0.2) comes only with a 'weak supporting evidence'
\* entry (evidence_strength < 0.35) and never counts more claims than it; the
\* time-reference entry comes only when strictly more than half of the
\* claims have no time references.
C30_LimitationsConsistent ==
  Returned("_identify_limitations") =>
    LET cl == call.claims
        limitations == returned.value
    IN  /\ returned.ok
        /\ HoldsText(limitations, LimitedText) =>
             /\ HoldsText(limitations, WeakText)
             /\ EntryCount(limitations, LimitedText) = LimitedIn(cl)
             /\ EntryCount(limitations, LimitedText) <= EntryCount(limitations, WeakText)
        /\ HoldsText(limitations, UndatedText) => 2 * UndatedIn(cl) > Len(cl)

\* two claims of weak evidence, one of them at 0.2 or below, one without
\* time references: the limited-results entry counts 1, the weak entry 2,
\* and there is no time-reference entry
C30_Witness ==
  /\ Returned("_identify_limitations")
  /\ Len(call.claims) = 2
  /\ UndatedIn(call.claims) = 1
  /\ returned.ok
  /\ Holds(returned.value, [count |-> 1, text |-> LimitedText])
  /\ Holds(returned.value, [count |-> 2, text |-> WeakText])
  /\ ~HoldsText(returned.value, UndatedText)

\* the events of TattvaAgent.process among the events of a request
ProcessEvents ==
  SelectSeq(events, LAMBDA e : e.event_type \notin {"api_request", "api_response"})

PerClaimSteps(k) ==
  << <<"query_planning_claim", k>>, <<"evidence_gathering_claim", k>>,
     <<"verdict_synthesis_claim", k>> >>

RECURSIVE ClaimSteps(_)
ClaimSteps(n) == IF n = 0 THEN <<>> ELSE ClaimSteps(n - 1) \o PerClaimSteps(n)

\* the stream of a run over n claims that ends with a report
StageStream(n) ==
  IF n = 0
  THEN << <<"initialization">>, <<"claim_extraction">>, <<"finalization">> >>
  ELSE << <<"initialization">>, <<"claim_extraction">> >> \o ClaimSteps(n)
       \o << <<"score_calculation">>, <<"bias_analysis">>, <<"summary_generation">>,
             <<"finalization">> >>

IsPrefix(a, b) == Len(a) <= Len(b) /\ a = SubSeq(b, 1, Len(a))

\* the stage an event reports has completed: its result is in the state
StageCompleted(step) ==
  CASE step[1] = "claim_extraction" -> "claim_extraction" \in attempted
    [] step[1] = "query_planning_claim" -> "query_plan" \in DOMAIN claims[step[2]]
    [] step[1] = "evidence_gathering_claim" ->
         step[2] < i \/ pc # "search" \/ "verdict" \in DOMAIN claims[step[2]]
    [] step[1] = "verdict_synthesis_claim" ->
         /\ "verdict" \in DOMAIN claims[step[2]]
         /\ Len(processed_claims) >= step[2]
    [] step[1] = "score_calculation" -> scores # None
    [] step[1] = "bias_analysis" -> bias_context # None
    [] step[1] = "summary_generation" -> "summary_generation" \in attempted
    [] step[1] = "finalization" -> output # None
    [] OTHER -> TRUE

\* C23: the events of a run are an ordered stream: agent_start, then
\* claim_extraction, then for claim 1, 2, ... its query_planning,
\* evidence_gathering and verdict_synthesis events, then score_calculation,
\* bias_analysis, summary_generation and agent_complete; an event is there
\* only once its stage has completed.
C23_EventsOrdered ==
  LET stream == SelectSeq(ProcessEvents, LAMBDA e : e.event_type # "error")
      steps == [k \in 1..Len(stream) |-> stream[k].step]
  IN  /\ IsPrefix(steps, StageStream(Len(claims)))
      /\ \A k \in 1..Len(stream) :
           /\ StageCompleted(stream[k].step)
           /\ stream[k].event_type =
                CASE stream[k].step = <<"initialization">> -> "agent_start"
                  [] stream[k].step = <<"finalization">> -> "agent_complete"
                  [] OTHER -> "processing_step"

\* a run over two claims that emitted the whole stream
C23_Witness ==
  /\ pc = "done"
  /\ Len(claims) = 2
  /\ [k \in 1..Len(ProcessEvents) |-> ProcessEvents[k].step] = StageStream(2)

\* the request with its beliefs taken away
WithoutBeliefs(input) == [input EXCEPT !.beliefs = <<>>]

\* C24: beliefs serve the reality distance only: the scoring step changes no
\* claim, and the tattva_score, the claims, the bias context and the
\* limitations of a report are those the same run yields without beliefs.
C24_BeliefsOnlyInRealityDistance ==
  [][/\ (pc = "score" /\ pc' = "bias") =>
          /\ claims' = claims
          /\ processed_claims' = processed_claims
          /\ scores'.tattva_score
               = calculate_scores(processed_claims, <<>>).value.tattva_score
     /\ (pc' = "done" /\ IsReport(response'.body) /\ claims # <<>>) =>
          /\ response'.body.claims = processed_claims
          /\ response'.body.tattva_score
               = calculate_scores(processed_claims, <<>>).value.tattva_score
          /\ response'.body.bias_context = bias_context
          /\ response'.body.limitations
               = _identify_limitations(processed_claims, WithoutBeliefs(input_data)).value]_vars

\* a report for a request with beliefs: the distance was measured
C24_Witness ==
  /\ pc = "done"
  /\ IsReport(response.body)
  /\ input_data.beliefs # <<>>
  /\ response.body.reality_distance.status = "ok"
  /\ response.body.reality_distance.value > 0
  /\ response.body.tattva_score > 0

(***************************************************************************)
(* C26: the reality distance for any claim list                            *)
(***************************************************************************)
\* C26: for non-empty beliefs and any claim list, the empty list and lists
\* whose weights are all zero included, calculate_reality_distance raises
\* no error and returns status 'ok' with a value between 0 and 100.
C26_RealityDistanceTotal ==
  (Returned("calculate_reality_distance") /\ call.beliefs # <<>>) =>
    /\ returned.ok
    /\ returned.value.status = "ok"
    /\ returned.value.value \in 0..100000

\* the part of C26 that the code keeps: a non-empty claim list, all of
\* whose weights may be zero, gives status 'ok' and a value in range
C26_NonEmptyListInRange ==
  (/\ Returned("calculate_reality_distance")
   /\ call.beliefs # <<>>
   /\ call.claims # <<>>) =>
    /\ returned.ok
    /\ returned.value.status = "ok"
    /\ returned.value.value \in 0..100000

\* beliefs given, no claims: the call raises
C26_EmptyListRaises ==
  /\ Returned("calculate_reality_distance")
  /\ call.beliefs # <<>>
  /\ call.claims = <<>>
  /\ ~returned.ok

(***************************************************************************)
(* C28: one terminal event for each run of TattvaAgent.process             *)
(***************************************************************************)
TerminalTypes == {"agent_complete", "error"}

Started == \E k \in 1..Len(events) : events[k].event_type = "agent_start"

\* process has handed control back to fact_check
ProcessEnded ==
  Started /\ pc \in {"fact_check_return", "fact_check_except", "done"}

Terminals == SelectSeq(ProcessEvents, LAMBDA e : e.event_type \in TerminalTypes)

\* C28: a run of process that emitted agent_start emits exactly one
\* terminal event: agent_complete when it returns a report (the empty one
\* included), error when it re-raises; never both, and the terminal event
\* is the last event of the run, so no processing_step follows it.
C28_ExactlyOneTerminalEvent ==
  /\ Len(Terminals) <= 1
  /\ Len(Terminals) = 1 =>
       ProcessEvents[Len(ProcessEvents)].event_type \in TerminalTypes
  /\ ProcessEnded =>
       /\ Len(Terminals) = 1
       /\ Terminals[1].event_type =
            IF output # None THEN "agent_complete" ELSE "error"
       /\ output # None <=> exc = NoException

\* a run over two claims whose summary could not be generated: the error
\* event closes the stream right after the bias_analysis step
C28_Witness ==
  /\ pc = "done"
  /\ Len(claims) = 2
  /\ exc # NoException
  /\ Len(ProcessEvents) > 2
  /\ ProcessEvents[Len(ProcessEvents)].event_type = "error"
  /\ ProcessEvents[Len(ProcessEvents) - 1].step = <<"bias_analysis">>

(***************************************************************************)
(* C29: the request identifier of the audit events                         *)
(***************************************************************************)
\* C29: every audit event of a request, from fact_check and from process,
\* carries the request identifier that the response returns.
C29_OneRequestId ==
  \A k \in 1..Len(events) : events[k].request_id = request_id

\* a finished request whose response names one identifier and whose agent
\* events carry another
C29_TwoIdentifiers ==
  /\ pc = "done"
  /\ response.status_code = HttpOk
  /\ "request_id" \in DOMAIN response.body
  /\ \E k \in 1..Len(events) :
       /\ events[k].event_type = "agent_complete"
       /\ events[k].request_id # response.body.request_id
  /\ \A k \in 1..Len(events) :
       events[k].event_type \in {"api_request", "api_response"} =>
         events[k].request_id = response.body.request_id

(***************************************************************************)
(* C27: a request all of whose claims end with the fallback verdict        *)
(***************************************************************************)
\* the claim carries what the fallback of synthesize_verdict gives it
EndsWithFallback(claim) ==
  /\ claim.verdict.label = "unverified"
  /\ claim.verdict.truth_prob_cal = 500
  /\ claim.evidence_strength = 100

AllFallback(cl) == cl # <<>> /\ \A k \in 1..Len(cl) : EndsWithFallback(cl[k])

\* prominence values from 0 to 1
ProminenceValues == {0, 300, 1000}

\* the claims with other prominence values
Reweighed(cl, prominence) ==
  [k \in 1..Len(cl) |-> [cl[k] EXCEPT !.prominence = prominence[k]]]

OwnClaims(r, cl) == \A k \in 1..Len(cl) : cl[k].id \div 10 = r

OwnResults(r, results) == \A k \in 1..Len(results) : results[k].link.host = HostOf(r)

OwnEvidence(r, bundle) ==
  \A k \in 1..Len(bundle.evidence_items) :
    bundle.evidence_items[k].source_url.host = HostOf(r)

\* C25: with the stages of two requests interleaved in any order, each
\* request gets the report it gets when it runs alone, and its frame never
\* holds anything of the other request: its claims, its search results and
\* per-domain counts, the sources of its evidence are its own, and its
\* scores are computed from its own claims and beliefs.
C25_RequestsIsolated ==
  \A r \in Requests :
    LET f == frames[r]
    IN  /\ OwnClaims(r, f.claims)
        /\ OwnClaims(r, f.processed_claims)
        /\ OwnResults(r, f.all_results)
        /\ \A domain \in DOMAIN f.domains_seen : domain.host = HostOf(r)
        /\ f.evidence # None => OwnEvidence(r, f.evidence)
        /\ f.scores # None =>
             f.scores = calculate_scores(f.processed_claims, f.input_data.beliefs).value
        /\ f.pc = "returned" => f.output = RunAlone(f.input_data)

\* both requests ran over two claims and returned different reports; the
\* last evidence gathering of each came right after one of the other
C25_Witness ==
  /\ \A r \in Requests :
       /\ frames[r].pc = "returned"
       /\ Len(frames[r].processed_claims) = 2
       /\ frames[r].gathered_after = 3 - r
       /\ frames[r].output.claims[2].evidence_strength > NoEvidenceStrength
  /\ frames[1].input_data.beliefs # <<>>
  /\ frames[2].input_data.beliefs = <<>>
  /\ frames[1].output # frames[2].output

====
